---- MODULE Spec2Model ----
(***************************************************************************)
(* Model of the electric-truck route planner of tactspace/babs.             *)
(*                                                                         *)
(* This part covers backend/optily.py: plan_route and the EU-compliant      *)
(* planner _plan_eu_compliant_route (the HEAD side of the file).            *)
(*                                                                         *)
(* Units.  The source computes in floating point; the model uses exact      *)
(* integers in units fine enough that every quantity the planner compares  *)
(* is a whole number:                                                      *)
(*   distance, position : 1/3 km        (Km(200) = 600)                    *)
(*   energy, charge     : 1/30 kWh      (KWh(400) = 12000)                 *)
(*   consumption        : 1/10 kWh/km   (1.2 kWh/km = 12)                  *)
(*   time               : minutes                                          *)
(*   price              : cent/kWh                                         *)
(*   money              : 1/6000 EUR                                       *)
(* so that energy = distance * consumption and range = energy/consumption  *)
(* without conversion factors.  Positions lie on one corridor (a line):    *)
(* the route between two points is the straight stretch between them.      *)
(***************************************************************************)
EXTENDS Integers, Sequences, FiniteSets, TLC

Km(x) == 3 * x
KWh(x) == 30 * x
Abs(x) == IF x < 0 THEN 0 - x ELSE x
Min2(a, b) == IF a <= b THEN a ELSE b
Max2(a, b) == IF a >= b THEN a ELSE b

\* Python's None where an object is expected (a route, a segment, a station,
\* a response)
None == [none |-> TRUE]
\* truck_model = None
NoModel == "None"

(***************************************************************************)
(* Program constants (backend/optily.py)                                    *)
(***************************************************************************)
\* MAX_CONTINUOUS_DRIVING_HOURS = 4.5, in minutes
MAX_CONTINUOUS_DRIVING_MINUTES == 270
\* SHORT_BREAK_DURATION_HOURS = 0.75, in minutes
SHORT_BREAK_DURATION_MINUTES == 45
\* MAX_DAILY_DRIVING_HOURS = 9.0, in minutes
MAX_DAILY_DRIVING_MINUTES == 540
\* LONG_REST_DURATION_HOURS = 11.0, in minutes
LONG_REST_DURATION_MINUTES == 660
\* MAX_ALLOWED_DIRECT_DRIVING_HOURS = 4.5, in halves (the source compares
\* a duration in minutes with this number of hours)
MAX_ALLOWED_DIRECT_DRIVING_HOURS_HALVES == 9
\* the hop limit of "if segment_count > 10: break"
MAX_SEGMENT_COUNT == 10
\* num_candidates=5 of _find_closest_stations_to_point
NUM_CANDIDATES == 5
\* AVERAGE_TRUCK_SPEED_KMH = 70.0
AVERAGE_TRUCK_SPEED_KMH == 70
\* MIN_DRIVING_TIME_HOURS * AVERAGE_TRUCK_SPEED_KMH = (4 - 10/60) * 70 km
\* = 805/3 km
TIME_LIMITED_RANGE == 805
\* DRIVER_HOURLY_PAY = 35.0 EUR/h  = 3500/6000 EUR per minute
DRIVER_PAY_PER_MINUTE == 3500
\* DEPRECIATION_PER_KM = 0.05 EUR/km = 100/6000 EUR per 1/3 km
DEPRECIATION_PER_UNIT == 100
\* TOLLS_PER_KM = 0.00
TOLLS_PER_UNIT == 0

Percent80(capacity) == (capacity * 4) \div 5
Percent20(capacity) == capacity \div 5

(***************************************************************************)
(* Bounds of the model                                                      *)
(***************************************************************************)
\* how many routing-provider calls of one plan_route run may fail
MaxProviderFailures == 1

(***************************************************************************)
(* Inputs: the truck directory, the station directories, the requests       *)
(***************************************************************************)
Trucks == [eActros |-> [battery_capacity |-> KWh(400), consumption |-> 12]]

TruckModels == {"eActros"}

Station(id, pos, price, power) ==
    [id |-> id, pos |-> pos, price_per_kWh |-> price, max_power_kW |-> power]

StationLists ==
    { << >>,
      << Station(1, Km(1000), 39, 300) >>,
      << Station(1, Km(0), 39, 300) >>,
      << Station(1, Km(100), 39, 0) >>,
      << Station(1, Km(400), 39, 300) >>,
      << Station(1, Km(250), 45, 150), Station(2, Km(260), 39, 300),
         Station(3, Km(500), 39, 300) >>,
      \* a station every 250 km of a long corridor
      [ i \in 1..13 |-> Station(i, Km(250 * i), 39, 300) ] }

Origin == Km(0)
Destinations == { Km(4), Km(200), Km(350), Km(600), Km(3500) }
RequestedModels == { NoModel, "eActros", "eCascadia" }
\* starting_battery_kwh: << >> for None, << c >> for the charge c
RequestedCharges == { << >>, << KWh(500) >>, << KWh(150) >> }
\* speed, in km/h, at which the provider's routes are driven
TrafficSpeeds == { 70, 50 }

(***************************************************************************)
(* Routing provider (backend/tomtom.py get_route): a route or None          *)
(***************************************************************************)
Route(a, b, kmh) ==
    [distance |-> Abs(b - a), duration |-> (Abs(b - a) * 20) \div kmh]

\* the answers get_route can give for one call
Responses(a, b, kmh) == { Route(a, b, kmh), None }

\* number of failed calls among the answers ans (a sequence)
CountFailed(ans) == Cardinality({ i \in DOMAIN ans : ans[i] = None })

(***************************************************************************)
(* Pure helpers of backend/optily.py and backend/trucks.py                  *)
(***************************************************************************)
calculate_energy_consumption(distance_km, truck) ==
    distance_km * truck.consumption

\* _get_route_distance: the route's distance, 0 when the provider fails
GetRouteDistance(r) == IF r = None THEN 0 ELSE r.distance

\* _get_route_duration: the route's duration in minutes, 0 when the lookup
\* raises on a missing route
GetRouteDuration(r) == IF r = None THEN 0 ELSE r.duration

\* _create_route_segment: the segment dict, None when the provider fails
CreateRouteSegment(r, a, b, truck) ==
    IF r = None THEN None
    ELSE [distance_km |-> r.distance,
          duration_minutes |-> r.duration,
          energy_consumption |-> calculate_energy_consumption(r.distance, truck),
          start_point |-> a, end_point |-> b]

\* mutant: the range is not cut off at 20 % of the capacity
CalculateMaxRangeUntil20Percent_no_floor(truck, battery) ==
    LET usable_battery == battery - Percent20(truck.battery_capacity)
    IN  Min2(usable_battery \div truck.consumption, TIME_LIMITED_RANGE)

\* _calculate_max_range_until_20_percent
CalculateMaxRangeUntil20Percent(truck, battery) ==
    LET usable_battery == battery - Percent20(truck.battery_capacity)
    IN  IF usable_battery <= 0 THEN 0
        ELSE Min2(usable_battery \div truck.consumption, TIME_LIMITED_RANGE)

\* _find_point_at_distance: the point distance_km along the route from
\* start to end; the start when the provider fails, the end when the route
\* is shorter
FindPointAtDistance(r, start, end, distance_km) ==
    IF r = None THEN start
    ELSE IF distance_km >= Abs(end - start) THEN end
    ELSE IF end >= start THEN start + distance_km ELSE start - distance_km

\* _euclidean_distance on the corridor
EuclideanDistance(p, q) == Abs(q - p)

\* position of station i in the stable sort by distance to point
StationRank(point, stations, i) ==
    Cardinality({ j \in DOMAIN stations :
        \/ EuclideanDistance(point, stations[j].pos)
             < EuclideanDistance(point, stations[i].pos)
        \/ /\ EuclideanDistance(point, stations[j].pos)
                = EuclideanDistance(point, stations[i].pos)
           /\ j < i })

\* _find_closest_stations_to_point: the num_candidates closest stations,
\* closest first; no station is excluded for being far away
FindClosestStationsToPoint(point, stations, num_candidates) ==
    [ k \in 1..Min2(num_candidates, Len(stations)) |->
        stations[CHOOSE i \in DOMAIN stations :
                    StationRank(point, stations, i) = k - 1] ]

\* _select_best_station_by_score: score = 1.0 * price + 0.0 / power, or
\* infinity for a station without power; the first candidate of strictly
\* smallest finite score, None when there is none
SelectBestStationByScore(candidates) ==
    LET scored == { k \in DOMAIN candidates : candidates[k].max_power_kW > 0 }
    IN  IF scored = {} THEN None
        ELSE candidates[CHOOSE k \in scored :
                \A j \in scored :
                    \/ candidates[k].price_per_kWh < candidates[j].price_per_kWh
                    \/ /\ candidates[k].price_per_kWh = candidates[j].price_per_kWh
                       /\ k <= j]

\* _create_charging_stop
CreateChargingStop(station, segment_count, battery, energy_used, truck) ==
    LET arrival_battery == battery - energy_used
        energy_to_charge == Percent80(truck.battery_capacity) - arrival_battery
    IN  [station |-> station,
         segment |-> segment_count,
         arrival_battery |-> arrival_battery,
         energy_to_charge |-> energy_to_charge,
         \* hours = kWh / kW; kept in minutes: 60 * (e/30) / power
         charging_time_minutes |->
             IF station.max_power_kW > 0
             THEN (2 * energy_to_charge) \div station.max_power_kW
             ELSE 60,
         charging_cost |-> 2 * energy_to_charge * station.price_per_kWh]

\* mutant: charging and resting one after the other
CalculateTotalStationTime_sum(charging_stop) ==
    charging_stop.charging_time_minutes + SHORT_BREAK_DURATION_MINUTES

\* _calculate_total_station_time, in minutes
CalculateTotalStationTime(charging_stop) ==
    Max2(charging_stop.charging_time_minutes, SHORT_BREAK_DURATION_MINUTES)

\* _add_segment_costs: the running totals after adding one segment
AddSegmentCosts(segment, costs) ==
    [costs EXCEPT
       !.driver_cost = @ + DRIVER_PAY_PER_MINUTE * segment.duration_minutes,
       !.depreciation_cost = @ + DEPRECIATION_PER_UNIT * segment.distance_km,
       !.tolls_cost = @ + TOLLS_PER_UNIT * segment.distance_km]

\* mutant: the driver is also paid for the charging time
AddChargingCosts_driver_wait(charging_stop, costs) ==
    [costs EXCEPT
       !.charging_cost = @ + charging_stop.charging_cost,
       !.driver_cost = @ + DRIVER_PAY_PER_MINUTE * charging_stop.charging_time_minutes]

\* _add_charging_costs
AddChargingCosts(charging_stop, costs) ==
    [costs EXCEPT !.charging_cost = @ + charging_stop.charging_cost]

\* _calculate_segment_costs_dict: the costs of one segment on their own
CalculateSegmentCostsDict(segment) ==
    LET driver_cost == DRIVER_PAY_PER_MINUTE * segment.duration_minutes
        depreciation_cost == DEPRECIATION_PER_UNIT * segment.distance_km
        tolls_cost == TOLLS_PER_UNIT * segment.distance_km
    IN  [driver_cost_eur |-> driver_cost,
         depreciation_cost_eur |-> depreciation_cost,
         tolls_cost_eur |-> tolls_cost,
         total_cost_eur |-> driver_cost + depreciation_cost + tolls_cost]

\* sum(total_costs.values())
SumCosts(costs) ==
    costs.driver_cost + costs.depreciation_cost + costs.tolls_cost
      + costs.charging_cost

\* RouteCosts(...) built from the running totals
RouteCosts(costs) ==
    [driver_cost_eur |-> costs.driver_cost,
     depreciation_cost_eur |-> costs.depreciation_cost,
     tolls_cost_eur |-> costs.tolls_cost,
     charging_cost_eur |-> costs.charging_cost,
     total_cost_eur |-> SumCosts(costs)]

\* DetailedRouteSegment(...)
DetailedRouteSegment(number, segment) ==
    [segment_number |-> number,
     start_point |-> segment.start_point,
     end_point |-> segment.end_point,
     distance_km |-> segment.distance_km,
     duration_minutes |-> segment.duration_minutes,
     energy_consumption_kwh |-> segment.energy_consumption,
     costs |-> CalculateSegmentCostsDict(segment)]

\* DetailedChargingStop(...): the departure charge is recorded as 80 %
DetailedChargingStop(number, charging_stop, truck) ==
    [stop_number |-> number,
     charging_station |-> charging_stop.station,
     arrival_battery_kwh |-> charging_stop.arrival_battery,
     energy_to_charge_kwh |-> charging_stop.energy_to_charge,
     charging_time_minutes |-> charging_stop.charging_time_minutes,
     charging_cost_eur |-> charging_stop.charging_cost,
     departure_battery_kwh |-> Percent80(truck.battery_capacity)]

\* DetailedDriverBreak(...)
DetailedDriverBreak(number, type, location, start, duration) ==
    [break_number |-> number, break_type |-> type, location |-> location,
     start_time_minutes |-> start, duration_minutes |-> duration]

\* _find_break_location: the closest station, the position itself when
\* there is no station
FindBreakLocation(position, stations) ==
    LET nearby == FindClosestStationsToPoint(position, stations, 3)
    IN  IF nearby # << >> THEN nearby[1].pos ELSE position

\* sum of the first n numbers of the sequence s
RECURSIVE SumFirst(_, _)
SumFirst(s, n) == IF n = 0 THEN 0 ELSE s[n] + SumFirst(s, n - 1)

\* sum of a sequence of numbers
SumSeq(s) == SumFirst(s, Len(s))

(***************************************************************************)
(* State                                                                    *)
(***************************************************************************)
VARIABLES
    \* inputs of plan_route and the world it runs in
    charging_stations,        \* load_charging_stations(...)
    destination,              \* (request.end_lat, request.end_lng)
    truck_model,              \* parameter truck_model
    starting_battery_kwh,     \* parameter starting_battery_kwh
    traffic_kmh,              \* speed of the provider's routes
    failures,                 \* provider calls that failed so far
    \* locals of plan_route / _plan_eu_compliant_route
    pc,                       \* "start", "direct", "loop", "done"
    truck,
    route_segments,
    detailed_segments,
    charging_stops,
    detailed_charging_stops,
    driver_breaks,
    total_costs,
    driver,
    current_battery,
    current_position,
    total_journey_time_minutes,
    direct_distance,          \* last _get_route_distance to the destination
    direct_duration,          \* last _get_route_duration to the destination
    segment_count,
    break_count,
    result                    \* the SingleRouteWithSegments returned

VARIABLES
    \* calculate_multi_route_with_swaps and optimize_routes
    route_requests,           \* parameter route_requests: start and end points
    stations,                 \* the station directory the coordinator reads
    plan_ok,                  \* outcome of plan_route for each request
    base_routes,              \* requests whose plan_route succeeded
    optimizer_routes,         \* parameter routes of optimize_routes
    drivers,
    driver_assignments,       \* results["driver_assignments"]
    route_states,
    global_iteration,
    route_cursor,             \* position of `for route_state in route_states`
    current_iterations,
    truck_swaps,              \* results["truck_swaps"]
    opt_pc,                   \* "idle", "start", "base", "hops", "compile", "done"
    multi_result              \* the MultiRouteWithSegments returned

VARIABLES
    \* arguments and results of the functions checked on their own
    fn_pc,                    \* "idle", "call", "returned"
    fn_args,
    fn_result

inputs == << charging_stations, destination, truck_model, traffic_kmh >>
plan == << route_segments, detailed_segments, charging_stops,
           detailed_charging_stops, driver_breaks, total_costs, driver,
           current_battery, current_position, total_journey_time_minutes,
           direct_distance, direct_duration, segment_count, break_count >>
plan_route_vars ==
    << inputs, starting_battery_kwh, pc, truck, plan, result >>
coordinator_vars ==
    << route_requests, stations, plan_ok, base_routes, optimizer_routes,
       drivers, driver_assignments, route_states, global_iteration,
       route_cursor, current_iterations, truck_swaps, opt_pc, multi_result >>
fn_vars == << fn_pc, fn_args, fn_result >>
vars == << plan_route_vars, failures, coordinator_vars, fn_vars >>

\* the coordinator has not been called
CoordinatorIdle ==
    /\ route_requests = << >>
    /\ stations = << >>
    /\ plan_ok = << >>
    /\ base_routes = << >>
    /\ optimizer_routes = << >>
    /\ drivers = << >>
    /\ driver_assignments = << >>
    /\ route_states = << >>
    /\ global_iteration = 0
    /\ route_cursor = 0
    /\ current_iterations = << >>
    /\ truck_swaps = << >>
    /\ opt_pc = "idle"
    /\ multi_result = None

\* no function is being called on its own
FnIdle ==
    /\ fn_pc = "idle"
    /\ fn_args = << >>
    /\ fn_result = << >>

NewDriver(start) ==
    [current_location |-> start, home_location |-> start,
     mins_driven |-> 0, continuous_driving_minutes |-> 0,
     breaks_taken_min |-> 0]

NoCosts ==
    [driver_cost |-> 0, depreciation_cost |-> 0, tolls_cost |-> 0,
     charging_cost |-> 0]

Init ==
    /\ charging_stations \in StationLists
    /\ destination \in Destinations
    /\ truck_model \in RequestedModels
    /\ starting_battery_kwh \in RequestedCharges
    /\ traffic_kmh \in TrafficSpeeds
    /\ failures = 0
    /\ pc = "start"
    /\ truck = None
    /\ route_segments = << >>
    /\ detailed_segments = << >>
    /\ charging_stops = << >>
    /\ detailed_charging_stops = << >>
    /\ driver_breaks = << >>
    /\ total_costs = NoCosts
    /\ driver = NewDriver(Origin)
    /\ current_battery = 0
    /\ current_position = Origin
    /\ total_journey_time_minutes = 0
    /\ direct_distance = 0
    /\ direct_duration = 0
    /\ segment_count = 0
    /\ break_count = 0
    /\ result = None
    /\ CoordinatorIdle
    /\ FnIdle

(***************************************************************************)
(* Responses of plan_route                                                  *)
(***************************************************************************)
\* mutant: the error response returns the plan built so far
CreateErrorResponse_partial(message) ==
    [success |-> FALSE, message |-> message,
     distance_km |-> 0, duration_minutes |-> 0,
     route_segments |-> detailed_segments,
     charging_stops |-> detailed_charging_stops,
     driver_breaks |-> driver_breaks, driver |-> None, total_costs |-> None,
     starting_battery_kwh |-> None, final_battery_kwh |-> None,
     eu_compliant |-> FALSE]

\* _create_error_response
CreateErrorResponse(message) ==
    [success |-> FALSE, message |-> message,
     distance_km |-> 0, duration_minutes |-> 0,
     route_segments |-> << >>, charging_stops |-> << >>,
     driver_breaks |-> << >>, driver |-> None, total_costs |-> None,
     starting_battery_kwh |-> None, final_battery_kwh |-> None,
     eu_compliant |-> FALSE]

\* the SingleRouteWithSegments of the direct route
DirectResponse(segment, dsegs, dstops, breaks, drv, costs, start_kwh, final_kwh) ==
    [success |-> TRUE, message |-> "Direct EU-Compliant route planned successfully!",
     distance_km |-> segment.distance_km,
     duration_minutes |-> segment.duration_minutes,
     route_segments |-> dsegs, charging_stops |-> dstops,
     driver_breaks |-> breaks, driver |-> drv,
     total_costs |-> RouteCosts(costs),
     starting_battery_kwh |-> start_kwh, final_battery_kwh |-> final_kwh,
     eu_compliant |-> TRUE]

\* mutant: the total distance leaves out the last segment
StagedResponse_without_last(segs, dsegs, dstops, breaks, drv, costs, start_kwh, final_kwh) ==
    [success |-> TRUE, message |-> "EU-Compliant Route planned successfully!",
     distance_km |-> SumFirst([i \in DOMAIN segs |-> segs[i].distance_km],
                              Max2(Len(segs) - 1, 0)),
     duration_minutes |-> SumSeq([i \in DOMAIN segs |-> segs[i].duration_minutes]),
     route_segments |-> dsegs, charging_stops |-> dstops,
     driver_breaks |-> breaks, driver |-> drv,
     total_costs |-> RouteCosts(costs),
     starting_battery_kwh |-> start_kwh, final_battery_kwh |-> final_kwh,
     eu_compliant |-> TRUE]

\* the SingleRouteWithSegments built after the staged loop
StagedResponse(segs, dsegs, dstops, breaks, drv, costs, start_kwh, final_kwh) ==
    [success |-> TRUE, message |-> "EU-Compliant Route planned successfully!",
     distance_km |-> SumSeq([i \in DOMAIN segs |-> segs[i].distance_km]),
     duration_minutes |-> SumSeq([i \in DOMAIN segs |-> segs[i].duration_minutes]),
     route_segments |-> dsegs, charging_stops |-> dstops,
     driver_breaks |-> breaks, driver |-> drv,
     total_costs |-> RouteCosts(costs),
     starting_battery_kwh |-> start_kwh, final_battery_kwh |-> final_kwh,
     eu_compliant |-> TRUE]

(***************************************************************************)
(* plan_route: validation and set-up                                        *)
(***************************************************************************)
\* the truck model plan_route plans with: the first of the directory when
\* none is requested
\* list(trucks.keys())[0]
FirstTruckModel == "eActros"

SelectedModel == IF truck_model = NoModel THEN FirstTruckModel ELSE truck_model

RequestValid == charging_stations # << >> /\ SelectedModel \in TruckModels

\* plan_route returns an error response before planning
PlanRouteRejects ==
    /\ pc = "start"
    /\ ~RequestValid
    /\ result' = IF charging_stations = << >>
                 THEN CreateErrorResponse("No charging stations found")
                 ELSE CreateErrorResponse("Truck model not found")
    /\ pc' = "done"
    /\ UNCHANGED << coordinator_vars, fn_vars >>
    /\ UNCHANGED << inputs, starting_battery_kwh, failures, truck, plan >>

\* plan_route selects the truck, clamps the starting charge and enters
\* _plan_eu_compliant_route
PlanRouteStarts ==
    /\ pc = "start"
    /\ RequestValid
    /\ truck' = Trucks[SelectedModel]
    /\ starting_battery_kwh' =
          IF starting_battery_kwh = << >>
          THEN << truck'.battery_capacity >>
          ELSE << Min2(starting_battery_kwh[1], truck'.battery_capacity) >>
    /\ current_battery' = starting_battery_kwh'[1]
    /\ pc' = "direct"
    /\ UNCHANGED << coordinator_vars, fn_vars >>
    /\ UNCHANGED << inputs, failures, route_segments, detailed_segments,
                    charging_stops, detailed_charging_stops, driver_breaks,
                    total_costs, driver, current_position,
                    total_journey_time_minutes, direct_distance,
                    direct_duration, segment_count, break_count, result >>

(***************************************************************************)
(* _plan_eu_compliant_route: the direct route                               *)
(***************************************************************************)
\* the test of lines 147-155: the destination is reachable directly
IsDirectFeasible(distance, duration, battery, trk) ==
    LET energy_needed == calculate_energy_consumption(distance, trk)
        max_usable_battery == Percent80(trk.battery_capacity)
        \* direct_duration <= MAX_ALLOWED_DIRECT_DRIVING_HOURS: minutes
        \* against hours
        is_feasible_eu_compliant ==
            2 * duration <= MAX_ALLOWED_DIRECT_DRIVING_HOURS_HALVES
        is_feasible_battery ==
            battery >= energy_needed /\ energy_needed <= max_usable_battery
    IN  distance > 0 /\ is_feasible_battery /\ is_feasible_eu_compliant

\* the direct test succeeds and the segment is created: one segment, done
DirectRoute ==
    /\ pc = "direct"
    /\ \E r_dist \in Responses(current_position, destination, traffic_kmh),
          r_dur \in Responses(current_position, destination, traffic_kmh),
          r_seg \in Responses(current_position, destination, traffic_kmh) :
        /\ failures + CountFailed(<< r_dist, r_dur, r_seg >>)
              <= MaxProviderFailures
        /\ IsDirectFeasible(GetRouteDistance(r_dist), GetRouteDuration(r_dur),
                            current_battery, truck)
        /\ r_seg # None
        /\ failures' = failures + CountFailed(<< r_dist, r_dur, r_seg >>)
        /\ direct_distance' = GetRouteDistance(r_dist)
        /\ direct_duration' = GetRouteDuration(r_dur)
        /\ \E direct_segment \in { CreateRouteSegment(r_seg, current_position,
                                                      destination, truck) } :
           \E costs \in { AddSegmentCosts(direct_segment, total_costs) },
              drv \in { [driver EXCEPT
                  !.mins_driven = @ + direct_segment.duration_minutes,
                  !.continuous_driving_minutes =
                      @ + direct_segment.duration_minutes,
                  !.current_location = destination] },
              dsegs \in { Append(detailed_segments,
                                 DetailedRouteSegment(1, direct_segment)) } :
            /\ route_segments' = Append(route_segments, direct_segment)
            /\ total_costs' = costs
            /\ driver' = drv
            /\ total_journey_time_minutes' =
                  total_journey_time_minutes + direct_segment.duration_minutes
            /\ detailed_segments' = dsegs
            /\ result' = DirectResponse(direct_segment, dsegs,
                             detailed_charging_stops, driver_breaks, drv, costs,
                             starting_battery_kwh[1],
                             current_battery - direct_segment.energy_consumption)
    /\ pc' = "done"
    /\ UNCHANGED << coordinator_vars, fn_vars >>
    /\ UNCHANGED << inputs, starting_battery_kwh, truck, charging_stops,
                    detailed_charging_stops, driver_breaks, current_battery,
                    current_position, segment_count, break_count >>

\* the direct test fails, or it succeeds and the segment cannot be created:
\* the planner goes on to the staged loop
DirectNotTaken ==
    /\ pc = "direct"
    /\ \E r_dist \in Responses(current_position, destination, traffic_kmh),
          r_dur \in Responses(current_position, destination, traffic_kmh) :
        LET feasible == IsDirectFeasible(GetRouteDistance(r_dist),
                            GetRouteDuration(r_dur), current_battery, truck)
            \* the segment is requested only when the test succeeds
            failed == CountFailed(<< r_dist, r_dur >>)
                        + (IF feasible THEN 1 ELSE 0)
        IN  /\ failures + failed <= MaxProviderFailures
            /\ failures' = failures + failed
            /\ direct_distance' = GetRouteDistance(r_dist)
            /\ direct_duration' = GetRouteDuration(r_dur)
    /\ segment_count' = 0
    /\ break_count' = 0
    /\ pc' = "loop"
    /\ UNCHANGED << coordinator_vars, fn_vars >>
    /\ UNCHANGED << inputs, starting_battery_kwh, truck, route_segments,
                    detailed_segments, charging_stops, detailed_charging_stops,
                    driver_breaks, total_costs, driver, current_battery,
                    current_position, total_journey_time_minutes, result >>

(***************************************************************************)
(* _plan_eu_compliant_route: the staged loop                                *)
(***************************************************************************)
\* mutant: the loop has no hop limit
HopLimitReached_never(count) == FALSE

\* "if segment_count > 10: break"
HopLimitReached(count) == count > MAX_SEGMENT_COUNT

\* steps 1-2: the point at maximum range on the way to the destination
MaxRangePoint(r_point) ==
    FindPointAtDistance(r_point, current_position, destination,
        CalculateMaxRangeUntil20Percent(truck, current_battery))

\* steps 3-4: the station the hop goes to, None when no candidate scores
BestStation(r_point) ==
    SelectBestStationByScore(
        FindClosestStationsToPoint(MaxRangePoint(r_point), charging_stations,
                                   NUM_CANDIDATES))

\* step 5: the destination is reachable from the station after charging
\* to 80 %
ReachableFromStation(distance, duration, trk) ==
    /\ distance > 0
    /\ Percent80(trk.battery_capacity)
          >= calculate_energy_consumption(distance, trk)
    /\ duration <= MAX_CONTINUOUS_DRIVING_MINUTES

\* the loop ends at the hop limit: the plan built so far is returned
HopLimitExit ==
    /\ pc = "loop"
    /\ HopLimitReached(segment_count)
    /\ result' = StagedResponse(route_segments, detailed_segments,
                     detailed_charging_stops, driver_breaks, driver,
                     total_costs, starting_battery_kwh[1], current_battery)
    /\ pc' = "done"
    /\ UNCHANGED << coordinator_vars, fn_vars >>
    /\ UNCHANGED << inputs, starting_battery_kwh, failures, truck, plan >>

\* no station is selected: error response
HopNoStation ==
    /\ pc = "loop"
    /\ ~HopLimitReached(segment_count)
    /\ \E r_point \in Responses(current_position, destination, traffic_kmh) :
       \E max_range_point \in { MaxRangePoint(r_point) } :
       \E candidate_stations \in
              { FindClosestStationsToPoint(max_range_point, charging_stations,
                                           NUM_CANDIDATES) } :
        /\ failures + CountFailed(<< r_point >>) <= MaxProviderFailures
        /\ SelectBestStationByScore(candidate_stations) = None
        /\ failures' = failures + CountFailed(<< r_point >>)
    /\ segment_count' = segment_count + 1
    /\ result' = CreateErrorResponse("No suitable charging station found")
    /\ pc' = "done"
    /\ UNCHANGED << coordinator_vars, fn_vars >>
    /\ UNCHANGED << inputs, starting_battery_kwh, truck, route_segments,
                    detailed_segments, charging_stops, detailed_charging_stops,
                    driver_breaks, total_costs, driver, current_battery,
                    current_position, total_journey_time_minutes, break_count,
                    direct_distance, direct_duration >>

\* lines 309-382 of the terminal hop: the segment to the station, the
\* charging stop, the time at the station and the break recorded there
ArriveAtLastStation(best, seg, count) ==
    LET stop == CreateChargingStop(best, count, current_battery,
                                   seg.energy_consumption, truck)
        station_time == CalculateTotalStationTime(stop)
        journey == total_journey_time_minutes + seg.duration_minutes
                     + station_time
    IN  [route_segments |-> Append(route_segments, seg),
         total_costs |-> AddChargingCosts(stop, AddSegmentCosts(seg, total_costs)),
         driver |-> [driver EXCEPT
             !.mins_driven = @ + seg.duration_minutes,
             !.continuous_driving_minutes = @ + seg.duration_minutes,
             !.breaks_taken_min = @ + station_time],
         charging_stops |-> Append(charging_stops, stop),
         detailed_charging_stops |->
             Append(detailed_charging_stops,
                    DetailedChargingStop(count, stop, truck)),
         total_journey_time_minutes |-> journey,
         detailed_segments |->
             Append(detailed_segments, DetailedRouteSegment(count, seg)),
         driver_breaks |->
             Append(driver_breaks,
                    DetailedDriverBreak(break_count, "short_break", best.pos,
                                        journey, stop.charging_time_minutes))]

\* the destination is reachable from the selected station: segment to the
\* station, charging stop, final segment, and the loop ends with a plan
HopTerminal ==
    /\ pc = "loop"
    /\ ~HopLimitReached(segment_count)
    /\ \E r_point \in Responses(current_position, destination, traffic_kmh) :
       \E max_range_point \in { MaxRangePoint(r_point) } :
       \E candidate_stations \in
              { FindClosestStationsToPoint(max_range_point, charging_stations,
                                           NUM_CANDIDATES) } :
       \E best \in { SelectBestStationByScore(candidate_stations) } :
        /\ best # None
        /\ \E r_dd \in Responses(best.pos, destination, traffic_kmh),
              r_ddur \in Responses(best.pos, destination, traffic_kmh),
              r_s1 \in Responses(current_position, best.pos, traffic_kmh),
              r_s2 \in Responses(best.pos, destination, traffic_kmh) :
            /\ failures + CountFailed(<< r_point, r_dd, r_ddur, r_s1, r_s2 >>)
                  <= MaxProviderFailures
            /\ ReachableFromStation(GetRouteDistance(r_dd),
                                    GetRouteDuration(r_ddur), truck)
            /\ direct_distance' = GetRouteDistance(r_dd)
            /\ direct_duration' = GetRouteDuration(r_ddur)
            /\ r_s1 # None
            /\ r_s2 # None
            /\ failures' =
                  failures + CountFailed(<< r_point, r_dd, r_ddur, r_s1, r_s2 >>)
            /\ \E seg \in { CreateRouteSegment(r_s1, current_position,
                                               best.pos, truck) },
                  final \in { CreateRouteSegment(r_s2, best.pos, destination,
                                                 truck) } :
               \E at \in { ArriveAtLastStation(best, seg, segment_count + 1) } :
               \E segs \in { Append(at.route_segments, final) },
                  costs \in { AddSegmentCosts(final, at.total_costs) },
                  drv \in { [at.driver EXCEPT
                      !.mins_driven = @ + final.duration_minutes,
                      !.continuous_driving_minutes = @ + final.duration_minutes,
                      !.current_location = destination] },
                  dsegs \in { Append(at.detailed_segments,
                      DetailedRouteSegment(segment_count + 2, final)) } :
                /\ route_segments' = segs
                /\ total_costs' = costs
                /\ driver' = drv
                /\ charging_stops' = at.charging_stops
                /\ detailed_charging_stops' = at.detailed_charging_stops
                /\ driver_breaks' = at.driver_breaks
                /\ detailed_segments' = dsegs
                /\ total_journey_time_minutes' =
                      at.total_journey_time_minutes + final.duration_minutes
                /\ result' = StagedResponse(segs, dsegs,
                                 at.detailed_charging_stops, at.driver_breaks,
                                 drv, costs, starting_battery_kwh[1],
                                 current_battery)
    /\ segment_count' = segment_count + 1
    /\ pc' = "done"
    /\ UNCHANGED << coordinator_vars, fn_vars >>
    /\ UNCHANGED << inputs, starting_battery_kwh, truck, current_battery,
                    current_position, break_count >>

\* the destination is reachable from the selected station but the segment
\* to the station cannot be created: reading the missing segment raises,
\* and plan_route turns the exception into an error response
HopTerminalRaisesAtStation ==
    /\ pc = "loop"
    /\ ~HopLimitReached(segment_count)
    /\ \E r_point \in Responses(current_position, destination, traffic_kmh) :
       \E max_range_point \in { MaxRangePoint(r_point) } :
       \E candidate_stations \in
              { FindClosestStationsToPoint(max_range_point, charging_stations,
                                           NUM_CANDIDATES) } :
       \E best \in { SelectBestStationByScore(candidate_stations) } :
        /\ best # None
        /\ \E r_dd \in Responses(best.pos, destination, traffic_kmh),
              r_ddur \in Responses(best.pos, destination, traffic_kmh) :
            \* the segment to the station is requested, and fails
            /\ failures + CountFailed(<< r_point, r_dd, r_ddur >>) + 1
                  <= MaxProviderFailures
            /\ ReachableFromStation(GetRouteDistance(r_dd),
                                    GetRouteDuration(r_ddur), truck)
            /\ direct_distance' = GetRouteDistance(r_dd)
            /\ direct_duration' = GetRouteDuration(r_ddur)
            /\ failures' = failures + CountFailed(<< r_point, r_dd, r_ddur >>) + 1
    /\ segment_count' = segment_count + 1
    /\ result' = CreateErrorResponse("Unexpected error")
    /\ pc' = "done"
    /\ UNCHANGED << coordinator_vars, fn_vars >>
    /\ UNCHANGED << inputs, starting_battery_kwh, truck, route_segments,
                    detailed_segments, charging_stops, detailed_charging_stops,
                    driver_breaks, total_costs, driver, current_battery,
                    current_position, total_journey_time_minutes, break_count >>

\* the destination is reachable from the selected station, the segment to
\* the station and the charging stop are recorded, but the final segment
\* cannot be created: reading it raises, and plan_route turns the exception
\* into an error response
HopTerminalRaisesAtFinal ==
    /\ pc = "loop"
    /\ ~HopLimitReached(segment_count)
    /\ \E r_point \in Responses(current_position, destination, traffic_kmh) :
       \E max_range_point \in { MaxRangePoint(r_point) } :
       \E candidate_stations \in
              { FindClosestStationsToPoint(max_range_point, charging_stations,
                                           NUM_CANDIDATES) } :
       \E best \in { SelectBestStationByScore(candidate_stations) } :
        /\ best # None
        /\ \E r_dd \in Responses(best.pos, destination, traffic_kmh),
              r_ddur \in Responses(best.pos, destination, traffic_kmh),
              r_s1 \in Responses(current_position, best.pos, traffic_kmh) :
            \* the final segment is requested, and fails
            /\ failures + CountFailed(<< r_point, r_dd, r_ddur, r_s1 >>) + 1
                  <= MaxProviderFailures
            /\ ReachableFromStation(GetRouteDistance(r_dd),
                                    GetRouteDuration(r_ddur), truck)
            /\ direct_distance' = GetRouteDistance(r_dd)
            /\ direct_duration' = GetRouteDuration(r_ddur)
            /\ r_s1 # None
            /\ failures' =
                  failures + CountFailed(<< r_point, r_dd, r_ddur, r_s1 >>) + 1
            /\ \E seg \in { CreateRouteSegment(r_s1, current_position,
                                               best.pos, truck) } :
               \E at \in { ArriveAtLastStation(best, seg, segment_count + 1) } :
                /\ route_segments' = at.route_segments
                /\ total_costs' = at.total_costs
                /\ driver' = at.driver
                /\ charging_stops' = at.charging_stops
                /\ detailed_charging_stops' = at.detailed_charging_stops
                /\ driver_breaks' = at.driver_breaks
                /\ detailed_segments' = at.detailed_segments
                /\ total_journey_time_minutes' = at.total_journey_time_minutes
    /\ segment_count' = segment_count + 1
    /\ result' = CreateErrorResponse("Unexpected error")
    /\ pc' = "done"
    /\ UNCHANGED << coordinator_vars, fn_vars >>
    /\ UNCHANGED << inputs, starting_battery_kwh, truck, current_battery,
                    current_position, break_count >>

\* step 7: continuous_driving_minutes + predicted_duration_minutes exceeds
\* the limit, with predicted_duration_minutes = predicted_distance / 70 * 60
NeedsShortBreak(continuous_minutes, predicted_distance) ==
    continuous_minutes * AVERAGE_TRUCK_SPEED_KMH + 20 * predicted_distance
        > MAX_CONTINUOUS_DRIVING_MINUTES * AVERAGE_TRUCK_SPEED_KMH

\* step 8: daily_driving_minutes + predicted_duration_minutes exceeds the
\* daily limit, with daily_driving_minutes = limit - driver.mins_driven
NeedsLongRest(mins_driven, predicted_distance) ==
    LET daily_driving_minutes == MAX_DAILY_DRIVING_MINUTES - mins_driven
    IN  daily_driving_minutes * AVERAGE_TRUCK_SPEED_KMH + 20 * predicted_distance
            > MAX_DAILY_DRIVING_MINUTES * AVERAGE_TRUCK_SPEED_KMH

\* steps 7-8: the breaks inserted before the segment to the station
BreaksBeforeSegment(predicted_distance) ==
    LET short == NeedsShortBreak(driver.continuous_driving_minutes,
                                 predicted_distance)
        count1 == IF short THEN break_count + 1 ELSE break_count
        breaks1 == IF short
                   THEN Append(driver_breaks,
                          DetailedDriverBreak(count1, "short_break",
                              FindBreakLocation(current_position, charging_stations),
                              total_journey_time_minutes,
                              SHORT_BREAK_DURATION_MINUTES))
                   ELSE driver_breaks
        driver1 == IF short
                   THEN [driver EXCEPT
                           !.breaks_taken_min = @ + SHORT_BREAK_DURATION_MINUTES,
                           !.continuous_driving_minutes = 0]
                   ELSE driver
        journey1 == IF short
                    THEN total_journey_time_minutes + SHORT_BREAK_DURATION_MINUTES
                    ELSE total_journey_time_minutes
        rest == NeedsLongRest(driver1.mins_driven, predicted_distance)
        count2 == IF rest THEN count1 + 1 ELSE count1
    IN  [break_count |-> count2,
         driver_breaks |->
             IF rest
             THEN Append(breaks1,
                    DetailedDriverBreak(count2, "long_rest", current_position,
                        journey1, LONG_REST_DURATION_MINUTES))
             ELSE breaks1,
         driver |->
             IF rest
             THEN [driver1 EXCEPT
                     !.breaks_taken_min = @ + LONG_REST_DURATION_MINUTES,
                     !.continuous_driving_minutes = 0,
                     !.mins_driven = 0]
             ELSE driver1,
         total_journey_time_minutes |->
             IF rest THEN journey1 + LONG_REST_DURATION_MINUTES ELSE journey1]

\* a hop of the staged loop that does not end the route: breaks, segment
\* to the station, charging stop, and the next hop starts at the station
\* with a full battery
HopStaged ==
    /\ pc = "loop"
    /\ ~HopLimitReached(segment_count)
    /\ \E r_point \in Responses(current_position, destination, traffic_kmh) :
       \E max_range_point \in { MaxRangePoint(r_point) } :
       \E candidate_stations \in
              { FindClosestStationsToPoint(max_range_point, charging_stations,
                                           NUM_CANDIDATES) } :
       \E best \in { SelectBestStationByScore(candidate_stations) } :
        /\ best # None
        /\ \E r_dd \in Responses(best.pos, destination, traffic_kmh),
              r_ddur \in Responses(best.pos, destination, traffic_kmh),
              r_pred \in Responses(current_position, best.pos, traffic_kmh),
              r_seg \in Responses(current_position, best.pos, traffic_kmh) :
            /\ failures + CountFailed(<< r_point, r_dd, r_ddur, r_pred, r_seg >>)
                  <= MaxProviderFailures
            /\ ~ReachableFromStation(GetRouteDistance(r_dd),
                                     GetRouteDuration(r_ddur), truck)
            /\ direct_distance' = GetRouteDistance(r_dd)
            /\ direct_duration' = GetRouteDuration(r_ddur)
            /\ r_seg # None
            /\ failures' =
                  failures + CountFailed(<< r_point, r_dd, r_ddur, r_pred, r_seg >>)
            /\ \E before \in { BreaksBeforeSegment(GetRouteDistance(r_pred)) },
                  segment \in { CreateRouteSegment(r_seg, current_position,
                                                   best.pos, truck) } :
               \E stop \in { CreateChargingStop(best, segment_count + 1,
                               current_battery, segment.energy_consumption,
                               truck) } :
               \E station_time \in { CalculateTotalStationTime(stop) } :
                /\ break_count' = before.break_count
                /\ driver_breaks' = before.driver_breaks
                /\ route_segments' = Append(route_segments, segment)
                /\ total_costs' =
                      AddChargingCosts(stop, AddSegmentCosts(segment, total_costs))
                /\ driver' = [before.driver EXCEPT
                      !.mins_driven = @ + segment.duration_minutes,
                      !.continuous_driving_minutes = @ + segment.duration_minutes,
                      !.breaks_taken_min = @ + station_time,
                      !.current_location = best.pos]
                /\ detailed_segments' =
                      Append(detailed_segments,
                             DetailedRouteSegment(segment_count + 1, segment))
                /\ charging_stops' = Append(charging_stops, stop)
                /\ detailed_charging_stops' =
                      Append(detailed_charging_stops,
                             DetailedChargingStop(segment_count + 1, stop, truck))
                /\ total_journey_time_minutes' =
                      before.total_journey_time_minutes
                        + segment.duration_minutes + station_time
                /\ current_position' = best.pos
                \* "Charge to 100%"
                /\ current_battery' = truck.battery_capacity
    /\ segment_count' = segment_count + 1
    /\ UNCHANGED << coordinator_vars, fn_vars >>
    /\ UNCHANGED << inputs, starting_battery_kwh, truck, pc, result >>

\* a hop of the staged loop whose segment cannot be created: error response
HopSegmentFailed ==
    /\ pc = "loop"
    /\ ~HopLimitReached(segment_count)
    /\ \E r_point \in Responses(current_position, destination, traffic_kmh) :
       \E max_range_point \in { MaxRangePoint(r_point) } :
       \E candidate_stations \in
              { FindClosestStationsToPoint(max_range_point, charging_stations,
                                           NUM_CANDIDATES) } :
       \E best \in { SelectBestStationByScore(candidate_stations) } :
        /\ best # None
        /\ \E r_dd \in Responses(best.pos, destination, traffic_kmh),
              r_ddur \in Responses(best.pos, destination, traffic_kmh),
              r_pred \in Responses(current_position, best.pos, traffic_kmh) :
            \* the segment is requested, and fails
            /\ failures + CountFailed(<< r_point, r_dd, r_ddur, r_pred >>) + 1
                  <= MaxProviderFailures
            /\ ~ReachableFromStation(GetRouteDistance(r_dd),
                                     GetRouteDuration(r_ddur), truck)
            /\ direct_distance' = GetRouteDistance(r_dd)
            /\ direct_duration' = GetRouteDuration(r_ddur)
            /\ failures' =
                  failures + CountFailed(<< r_point, r_dd, r_ddur, r_pred >>) + 1
            /\ \E before \in { BreaksBeforeSegment(GetRouteDistance(r_pred)) } :
                /\ break_count' = before.break_count
                /\ driver_breaks' = before.driver_breaks
                /\ driver' = before.driver
                /\ total_journey_time_minutes' =
                      before.total_journey_time_minutes
    /\ segment_count' = segment_count + 1
    /\ result' = CreateErrorResponse("Failed to create route segment")
    /\ pc' = "done"
    /\ UNCHANGED << coordinator_vars, fn_vars >>
    /\ UNCHANGED << inputs, starting_battery_kwh, truck, route_segments,
                    detailed_segments, charging_stops, detailed_charging_stops,
                    total_costs, current_battery, current_position >>

Next ==
    \/ PlanRouteRejects
    \/ PlanRouteStarts
    \/ DirectRoute
    \/ DirectNotTaken
    \/ HopLimitExit
    \/ HopNoStation
    \/ HopTerminal
    \/ HopTerminalRaisesAtStation
    \/ HopTerminalRaisesAtFinal
    \/ HopStaged
    \/ HopSegmentFailed

Spec == Init /\ [][Next]_vars

TypeOK ==
    /\ pc \in {"start", "direct", "loop", "done"}
    /\ failures \in 0..MaxProviderFailures
    /\ segment_count \in Nat

(***************************************************************************)
(* Properties                                                               *)
(***************************************************************************)
\* the number of steps plan_route can still take: one for the validation,
\* one for the direct test, one for each iteration the loop may still start
\* and one for leaving the loop
StepsLeft ==
    CASE pc = "start" -> MAX_SEGMENT_COUNT + 4
      [] pc = "direct" -> MAX_SEGMENT_COUNT + 3
      [] pc = "loop" -> MAX_SEGMENT_COUNT + 2 - segment_count
      [] pc = "done" -> 0

\* C1: plan_route terminates: the staged loop never starts more than
\* MAX_SEGMENT_COUNT + 1 iterations, every step of the planner uses up one
\* of a bounded number of steps (so no run goes on for ever, whatever the
\* provider answers), and a planner that has stopped has returned a
\* response, a plan or an error.
C1_PlanRouteTerminates ==
    /\ [](segment_count <= MAX_SEGMENT_COUNT + 1 /\ StepsLeft >= 0)
    /\ [][StepsLeft' < StepsLeft]_vars
    /\ [](StepsLeft = 0 => result # None /\ result.success \in BOOLEAN)

\* a run that used every iteration of the loop and returned
C1_Witness ==
    pc = "done" /\ result # None /\ segment_count = MAX_SEGMENT_COUNT + 1

\* the response is a successful plan
Succeeded == pc = "done" /\ result.success

\* the response is a failure
Failed == pc = "done" /\ ~result.success

\* C2: a plan returned as successful ends at the destination: when the hop
\* limit is reached before the destination, plan_route returns a failure.
C2_HopLimitIsFailure ==
    Succeeded =>
        /\ result.route_segments # << >>
        /\ result.route_segments[Len(result.route_segments)].end_point
              = destination

\* the response is the plan of a direct route: one segment, no stop
IsDirectPlan(response) ==
    /\ response.success
    /\ Len(response.route_segments) = 1
    /\ response.charging_stops = << >>

\* C3: with the provider answering, plan_route plans the direct route
\* exactly when the energy needed is at most 80 % of the capacity and at
\* most the current charge and the driving duration is at most 270 minutes.
C3_DirectReachability ==
    [][(pc = "direct" /\ failures' = failures)
         => LET r == Route(current_position, destination, traffic_kmh)
                energy_needed ==
                    calculate_energy_consumption(r.distance, truck)
            IN  (pc' = "done" /\ IsDirectPlan(result'))
                  <=> /\ energy_needed <= Percent80(truck.battery_capacity)
                      /\ energy_needed <= current_battery
                      /\ r.duration <= MAX_CONTINUOUS_DRIVING_MINUTES]_vars

\* C4: whenever the direct test from the origin succeeds, plan_route
\* returns a successful plan of exactly one segment, no charging stop and
\* no break, without an iteration of the staged loop.
C4_DirectTestEndsPlanning ==
    [][(pc = "direct"
          /\ IsDirectFeasible(direct_distance', direct_duration',
                              current_battery, truck))
         => /\ pc' = "done"
            /\ IsDirectPlan(result')
            /\ result'.driver_breaks = << >>
            /\ segment_count' = 0]_vars

\* C5: in a successful plan the charge on arrival at every charging stop
\* and the final charge are not negative.
C5_ChargeNeverNegative ==
    Succeeded =>
        /\ \A i \in DOMAIN result.charging_stops :
              result.charging_stops[i].arrival_battery_kwh >= 0
        /\ result.final_battery_kwh >= 0

\* C6: the driver of a successful plan has not driven more than 270
\* minutes since the last break that reset continuous_driving_minutes.
C6_ContinuousDrivingWithinLimit ==
    Succeeded =>
        result.driver.continuous_driving_minutes
            <= MAX_CONTINUOUS_DRIVING_MINUTES

\* a long rest is among the breaks this step recorded
LongRestInserted ==
    \E i \in (Len(driver_breaks) + 1)..Len(driver_breaks') :
        driver_breaks'[i].break_type = "long_rest"

\* C7: a hop of the staged loop inserts a long rest before its segment of
\* duration d exactly when mins_driven + d exceeds 540 minutes.
C7_LongRestExactlyOverDailyLimit ==
    [][(pc = "loop" /\ pc' = "loop")
         => (LongRestInserted
               <=> driver.mins_driven
                     + route_segments'[Len(route_segments')].duration_minutes
                       > MAX_DAILY_DRIVING_MINUTES)]_vars

\* C8: the total cost of a successful plan is the sum of the costs of its
\* segments, each computed on its own, plus the charging costs of its stops.
C8_TotalCostIsSumOfParts ==
    Succeeded =>
        result.total_costs.total_cost_eur
          = SumSeq([i \in DOMAIN result.route_segments |->
                       result.route_segments[i].costs.total_cost_eur])
            + SumSeq([i \in DOMAIN result.charging_stops |->
                       result.charging_stops[i].charging_cost_eur])

\* a successful plan of several segments with a charging stop that costs
C8_Witness ==
    /\ Succeeded
    /\ Len(result.route_segments) >= 3
    /\ \E i \in DOMAIN result.charging_stops :
          result.charging_stops[i].charging_cost_eur > 0
    /\ result.total_costs.driver_cost_eur > 0

\* C9: a hop that starts with no station within the safe range of the
\* current position ends plan_route with the no-suitable-station error.
C9_NoStationInRangeFails ==
    [][(/\ pc = "loop"
        /\ ~HopLimitReached(segment_count)
        /\ failures' = failures
        /\ \A i \in DOMAIN charging_stations :
              EuclideanDistance(current_position, charging_stations[i].pos)
                  > CalculateMaxRangeUntil20Percent(truck, current_battery))
         => /\ pc' = "done"
            /\ ~result'.success
            /\ result'.message = "No suitable charging station found"]_vars

\* C10: a failure response carries a message and no segment, stop or break
\* and no distance, also when segments and stops had been computed.
C10_FailureDiscardsPartialPlan ==
    Failed =>
        /\ result.message \in { "No charging stations found",
                                "Truck model not found",
                                "No suitable charging station found",
                                "Failed to create route segment",
                                "Unexpected error" }
        /\ result.route_segments = << >>
        /\ result.charging_stops = << >>
        /\ result.driver_breaks = << >>
        /\ result.distance_km = 0

\* a failure after segments, stops and breaks had been computed
C10_Witness ==
    /\ Failed
    /\ detailed_segments # << >>
    /\ detailed_charging_stops # << >>
    /\ driver_breaks # << >>

(***************************************************************************)
(* The multi-route coordinator: optimizer.py and optily_multiroute.py      *)
(*                                                                         *)
(* Points are << x, y >> on a grid of 50 km.  calculate_distance is the   *)
(* straight-line distance in whole km, the provider's route distance is    *)
(* the distance along the grid in km.  Route, truck and driver numbers     *)
(* count from 1.  An alignment (the dot product of two normalised          *)
(* vectors) is kept exactly, as the pair n, d2 that stands for             *)
(* n / sqrt(d2).  Money is in cent, time in 1/7 minute.                    *)
(***************************************************************************)
TARGET_SEGMENT_DISTANCE == 300
DISTANCE_TOLERANCE == 50
AVERAGE_TRUCK_SPEED == 70
INTERVAL_TIME == 45
DRIVER_HOURLY_WAGE == 35
\* ALIGNMENT_THRESHOLD = 0.3, in tenths
ALIGNMENT_THRESHOLD_TENTHS == 3
\* INVERSE_ALIGNMENT_THRESHOLD = 0.8, in tenths
INVERSE_ALIGNMENT_THRESHOLD_TENTHS == 8
NEAR_RENDEZVOUS_RADIUS_KM == 300
\* 80 % of 350 kWh, the charging session the optimizer assumes
ESTIMATED_SESSION_KWH == 280
\* the id of the station find_optimal_next_station makes of the destination
DESTINATION_ID == 0 - 1

GRID_KM == 50

Pt(x, y) == << x, y >>
Minus(p, q) == << p[1] - q[1], p[2] - q[2] >>
Norm2(v) == v[1] * v[1] + v[2] * v[2]

\* the largest r in lo..hi with r * r <= n
RECURSIVE SqrtBetween(_, _, _)
SqrtBetween(n, lo, hi) ==
    IF lo >= hi THEN lo
    ELSE LET mid == (lo + hi + 1) \div 2
         IN  IF mid * mid <= n THEN SqrtBetween(n, mid, hi)
             ELSE SqrtBetween(n, lo, mid - 1)

\* charging_stations.calculate_distance
calculate_distance(point1, point2) ==
    LET n == GRID_KM * GRID_KM * Norm2(Minus(point2, point1))
    IN  SqrtBetween(n, 0, 4096)

\* tomtom.get_route between two points of the grid
GridRoute(a, b) ==
    [distance |-> GRID_KM * (Abs(b[1] - a[1]) + Abs(b[2] - a[2]))]

GridResponses(a, b) == { GridRoute(a, b), None }

\* the dot product of the normalised vectors; a vector of length 0 stays
\* (0, 0) when normalised
UnitDot(v, w) ==
    IF Norm2(v) = 0 \/ Norm2(w) = 0
    THEN [n |-> 0, d2 |-> 1]
    ELSE [n |-> v[1] * w[1] + v[2] * w[2], d2 |-> Norm2(v) * Norm2(w)]

\* dot > tenths / 10, for tenths >= 0
DotGreater(dot, tenths) ==
    dot.n > 0 /\ 100 * dot.n * dot.n > tenths * tenths * dot.d2

Sign(x) == IF x > 0 THEN 1 ELSE IF x < 0 THEN 0 - 1 ELSE 0

\* a < b for two alignments
DotLess(a, b) ==
    Sign(a.n) * a.n * a.n * b.d2 < Sign(b.n) * b.n * b.n * a.d2

DotEqual(a, b) == ~DotLess(a, b) /\ ~DotLess(b, a)

\* models.ChargingStation as the optimizer reads it
GridStation(id, pos, suitability, price) ==
    [id |-> id, pos |-> pos, truck_suitability |-> suitability,
     price_per_kWh |-> price]

RouteRequest(start, end) == [start |-> start, end |-> end]

\* the worlds the coordinator is run in
Worlds ==
    { \* two routes crossing at one station
      [requests |-> << RouteRequest(Pt(0, 0), Pt(12, 0)),
                       RouteRequest(Pt(12, 0), Pt(0, 0)) >>,
       stations |-> << GridStation(1, Pt(6, 0), "yes", 39) >>],
      \* two routes meeting at one station, onward directions (1, 0) and
      \* (4, 3) / 5
      [requests |-> << RouteRequest(Pt(0, 0), Pt(16, 0)),
                       RouteRequest(Pt(6, 0 - 6), Pt(14, 6)) >>,
       stations |-> << GridStation(1, Pt(6, 0), "yes", 39) >>],
      \* three routes meeting at one station
      [requests |-> << RouteRequest(Pt(0, 0), Pt(12, 0)),
                       RouteRequest(Pt(6, 0 - 6), Pt(6, 6)),
                       RouteRequest(Pt(12, 0), Pt(0, 0)) >>,
       stations |-> << GridStation(1, Pt(6, 0), "yes", 39) >>],
      \* three routes over two stations 200 km apart
      [requests |-> << RouteRequest(Pt(0, 0), Pt(12, 0)),
                       RouteRequest(Pt(0, 4), Pt(12, 4)),
                       RouteRequest(Pt(12, 4), Pt(0, 4)) >>,
       stations |-> << GridStation(1, Pt(6, 0), "yes", 39),
                       GridStation(2, Pt(6, 4), "yes", 45) >>],
      \* a long route along three stations and a route with no station
      [requests |-> << RouteRequest(Pt(0, 0), Pt(20, 0)),
                       RouteRequest(Pt(0, 10), Pt(20, 10)) >>,
       stations |-> << GridStation(1, Pt(6, 0), "yes", 39),
                       GridStation(2, Pt(12, 0), "yes", 39),
                       GridStation(3, Pt(18, 0), "yes", 45),
                       GridStation(4, Pt(6, 10), "no", 39) >>],
      \* two short routes, each within reach of its destination
      [requests |-> << RouteRequest(Pt(0, 0), Pt(6, 0)),
                       RouteRequest(Pt(6, 2), Pt(0, 2)) >>,
       stations |-> << GridStation(1, Pt(3, 1), "yes", 39) >> ] }

\* the indices i, i + 1, ... of flags that hold TRUE, in order
RECURSIVE TrueIndices(_, _)
TrueIndices(flags, i) ==
    IF i > Len(flags) THEN << >>
    ELSE (IF flags[i] THEN << i >> ELSE << >>) \o TrueIndices(flags, i + 1)

RECURSIVE MaxOver(_, _)
MaxOver(s, n) ==
    IF n = 0 THEN 0
    ELSE IF n = 1 THEN s[1] ELSE Max2(s[n], MaxOver(s, n - 1))

\* the least index of s with the least value
FirstMinIndex(s) ==
    CHOOSE i \in DOMAIN s :
        /\ \A j \in DOMAIN s : s[i] <= s[j]
        /\ \A j \in 1..(i - 1) : s[j] > s[i]

\* the station find_optimal_next_station returns for the destination
DestinationStation(end_position) ==
    [id |-> DESTINATION_ID, pos |-> end_position,
     truck_suitability |-> "yes", price_per_kWh |-> 0]

\* find_optimal_next_station
FindOptimalNextStation(start_position, end_position, station_list) ==
    LET direction_vector == Minus(end_position, start_position)
        min_distance == TARGET_SEGMENT_DISTANCE - DISTANCE_TOLERANCE
        max_distance == TARGET_SEGMENT_DISTANCE + DISTANCE_TOLERANCE
        total_distance_to_destination ==
            calculate_distance(start_position, end_position)
        InRange(d) == min_distance <= d /\ d <= max_distance
        Strict(station) ==
            LET d == calculate_distance(start_position, station.pos)
            IN  /\ station.truck_suitability = "yes"
                /\ \/ InRange(d)
                   \/ /\ total_distance_to_destination
                           < TARGET_SEGMENT_DISTANCE
                      /\ d < min_distance
                /\ DotGreater(UnitDot(direction_vector,
                                      Minus(station.pos, start_position)),
                              ALIGNMENT_THRESHOLD_TENTHS)
        Relaxed(station) ==
            /\ station.truck_suitability = "yes"
            /\ InRange(calculate_distance(start_position, station.pos))
        strict ==
            TrueIndices([i \in DOMAIN station_list |->
                            Strict(station_list[i])], 1)
        candidate_stations ==
            IF strict # << >> THEN strict
            ELSE TrueIndices([i \in DOMAIN station_list |->
                                 Relaxed(station_list[i])], 1)
        distance_to_dest ==
            [k \in DOMAIN candidate_stations |->
                calculate_distance(station_list[candidate_stations[k]].pos,
                                   end_position)]
        cost ==
            [k \in DOMAIN candidate_stations |->
                station_list[candidate_stations[k]].price_per_kWh
                    * ESTIMATED_SESSION_KWH]
        farthest == MaxOver(distance_to_dest, Len(distance_to_dest))
        max_cost == IF MaxOver(cost, Len(cost)) > 0
                    THEN MaxOver(cost, Len(cost)) ELSE 1
        \* combined_score times farthest * max_cost
        combined_score ==
            [k \in DOMAIN candidate_stations |->
                IF farthest > 0
                THEN distance_to_dest[k] * max_cost + cost[k] * farthest
                ELSE cost[k]]
    IN  IF total_distance_to_destination <= max_distance
        THEN DestinationStation(end_position)
        ELSE IF candidate_stations = << >> THEN None
        ELSE station_list[candidate_stations[FirstMinIndex(combined_score)]]

\* the iteration a hop records
IterationData(iteration_count, route_idx, start_position, next_station, segment_distance) ==
    LET cost_to_company ==
            (DRIVER_HOURLY_WAGE * 100 * segment_distance)
                \div AVERAGE_TRUCK_SPEED
        estimated_charging_cost ==
            next_station.price_per_kWh * ESTIMATED_SESSION_KWH
    IN  [iteration |-> iteration_count,
         route_idx |-> route_idx,
         start_position |-> start_position,
         end_position |-> next_station.pos,
         distance |-> segment_distance,
         charging_station |-> [id |-> next_station.id,
                               location |-> next_station.pos],
         is_final |-> FALSE,
         time_elapsed_minutes |->
             (segment_distance * 60 * 7) \div AVERAGE_TRUCK_SPEED
                 + INTERVAL_TIME * 7,
         cost_to_company |-> cost_to_company,
         charging_cost |-> estimated_charging_cost,
         sum_cost |-> cost_to_company + estimated_charging_cost]

\* the iteration recorded for the final segment to the destination
FinalIteration(iteration_count, route_idx, next_position, end_coord, final_distance) ==
    LET final_cost_to_company ==
            (DRIVER_HOURLY_WAGE * 100 * final_distance)
                \div AVERAGE_TRUCK_SPEED
    IN  [iteration |-> iteration_count + 1,
         route_idx |-> route_idx,
         start_position |-> next_position,
         end_position |-> end_coord,
         distance |-> final_distance,
         charging_station |-> None,
         is_final |-> TRUE,
         time_elapsed_minutes |->
             (final_distance * 60 * 7) \div AVERAGE_TRUCK_SPEED,
         cost_to_company |-> final_cost_to_company,
         charging_cost |-> 0,
         sum_cost |-> final_cost_to_company]

\* the pairs << i, j >> with i < j <= n in the order of the two loops
RECURSIVE PairsFrom(_, _, _)
PairsFrom(i, j, n) ==
    IF i >= n THEN << >>
    ELSE IF j > n THEN PairsFrom(i + 1, i + 2, n)
    ELSE << << i, j >> >> \o PairsFrom(i, j + 1, n)

RECURSIVE Flatten(_, _)
Flatten(ss, i) ==
    IF i > Len(ss) THEN << >> ELSE ss[i] \o Flatten(ss, i + 1)

\* a < b in the order of the sort key (alignment_dot, detour_km_total)
SwapKeyLess(a, b) ==
    \/ DotLess(a.alignment_dot, b.alignment_dot)
    \/ /\ DotEqual(a.alignment_dot, b.alignment_dot)
       /\ a.detour_km_total < b.detour_km_total

\* mutant: the candidates stay in the order in which they were found
SortSwaps_unsorted(swaps) == swaps

\* list.sort(key = ...): stable, ascending
SortSwaps(swaps) ==
    LET Rank(i) ==
            Cardinality({ j \in DOMAIN swaps :
                             \/ SwapKeyLess(swaps[j], swaps[i])
                             \/ /\ ~SwapKeyLess(swaps[i], swaps[j])
                                /\ j < i })
    IN  [p \in DOMAIN swaps |->
            swaps[CHOOSE i \in DOMAIN swaps : Rank(i) = p - 1]]

\* mutant: a pair is skipped only when the dot product is above 1
TooAligned_never(dot) == DotGreater(dot, 11)

\* mutant: the test is inverted, pairs at or below the threshold are skipped
TooAligned_inverted(dot) ==
    ~DotGreater(dot, INVERSE_ALIGNMENT_THRESHOLD_TENTHS)

\* dot > INVERSE_ALIGNMENT_THRESHOLD
TooAligned(dot) == DotGreater(dot, INVERSE_ALIGNMENT_THRESHOLD_TENTHS)

\* the driver of the truck on the route, None when there is none
DriverForRoute(driver_list, route_idx) ==
    LET found == { k \in DOMAIN driver_list :
                      driver_list[k].current_truck_id = route_idx }
    IN  IF found = {} THEN None
        ELSE driver_list[CHOOSE k \in found : \A m \in found : k <= m]

\* the candidate of one pair of iterations, as a list of at most one swap
PairCandidate(driver1, iteration1, driver2, iteration2, station_list, route_end_coords) ==
    LET pos1 == iteration1.end_position
        pos2 == iteration2.end_position
        dot == UnitDot(Minus(route_end_coords[iteration1.route_idx], pos1),
                       Minus(route_end_coords[iteration2.route_idx], pos2))
        station1_id == iteration1.charging_station.id
        station2_id == iteration2.charging_station.id
        Near(st) ==
            /\ st.truck_suitability = "yes"
            /\ calculate_distance(pos1, st.pos) <= NEAR_RENDEZVOUS_RADIUS_KM
            /\ calculate_distance(pos2, st.pos) <= NEAR_RENDEZVOUS_RADIUS_KM
        near == TrueIndices([i \in DOMAIN station_list |->
                                Near(station_list[i])], 1)
        detour_sum ==
            [k \in DOMAIN near |->
                calculate_distance(pos1, station_list[near[k]].pos)
                  + calculate_distance(pos2, station_list[near[k]].pos)]
        best_station == station_list[near[FirstMinIndex(detour_sum)]]
    IN  IF driver1.id = driver2.id THEN << >>
        ELSE IF \/ route_end_coords[iteration1.route_idx] = << >>
                \/ route_end_coords[iteration2.route_idx] = << >>
        THEN << >>
        ELSE IF TooAligned(dot) THEN << >>
        ELSE IF station1_id = station2_id
        THEN << [station_id |-> station1_id,
                 station_location |-> iteration1.charging_station.location,
                 driver1_id |-> driver1.id,
                 driver2_id |-> driver2.id,
                 benefit_km |-> 0,
                 alignment_dot |-> dot,
                 reason |-> "same_station",
                 detour_km_total |-> 0,
                 iteration1 |-> iteration1,
                 iteration2 |-> iteration2] >>
        ELSE IF near = << >> THEN << >>
        ELSE << [station_id |-> best_station.id,
                 station_location |-> best_station.pos,
                 driver1_id |-> driver1.id,
                 driver2_id |-> driver2.id,
                 benefit_km |-> 0,
                 alignment_dot |-> dot,
                 reason |-> "rendezvous_within_radius",
                 detour_km_total |-> detour_sum[FirstMinIndex(detour_sum)],
                 iteration1 |-> iteration1,
                 iteration2 |-> iteration2] >>

\* find_potential_truck_swaps
FindPotentialTruckSwaps(iterations, driver_list, station_list, route_end_coords) ==
    LET with_driver ==
            TrueIndices([i \in DOMAIN iterations |->
                            /\ ~iterations[i].is_final
                            /\ DriverForRoute(driver_list,
                                   iterations[i].route_idx) # None], 1)
        iteration_driver_pairs ==
            [k \in DOMAIN with_driver |->
                [driver |-> DriverForRoute(driver_list,
                                iterations[with_driver[k]].route_idx),
                 iteration |-> iterations[with_driver[k]]]]
        pairs == PairsFrom(1, 2, Len(iteration_driver_pairs))
        potential_swaps ==
            Flatten([k \in DOMAIN pairs |->
                        PairCandidate(
                            iteration_driver_pairs[pairs[k][1]].driver,
                            iteration_driver_pairs[pairs[k][1]].iteration,
                            iteration_driver_pairs[pairs[k][2]].driver,
                            iteration_driver_pairs[pairs[k][2]].iteration,
                            station_list, route_end_coords)], 1)
    IN  SortSwaps(potential_swaps)

\* the end coordinates of the routes that have a state, by route number;
\* a route without a state has none, written << >>
RouteEndCoords ==
    [r \in DOMAIN optimizer_routes |->
        IF \E k \in DOMAIN route_states : route_states[k].route_idx = r
        THEN optimizer_routes[r].end
        ELSE << >>]

\* mutant: the record carries the number of the next round
SwapRecord_next_round(swap, iteration) ==
    [station_id |-> swap.station_id,
     driver1_id |-> swap.driver1_id,
     driver2_id |-> swap.driver2_id,
     benefit_km |-> swap.benefit_km,
     alignment_dot |-> swap.alignment_dot,
     reason |-> swap.reason,
     station_location |-> swap.station_location,
     detour_km_total |-> swap.detour_km_total,
     iteration |-> iteration.iteration,
     global_iteration |-> global_iteration + 1]

\* the record appended to results["truck_swaps"] for one of the two routes
SwapRecord(swap, iteration) ==
    [station_id |-> swap.station_id,
     driver1_id |-> swap.driver1_id,
     driver2_id |-> swap.driver2_id,
     benefit_km |-> swap.benefit_km,
     alignment_dot |-> swap.alignment_dot,
     reason |-> swap.reason,
     station_location |-> swap.station_location,
     detour_km_total |-> swap.detour_km_total,
     iteration |-> iteration.iteration,
     global_iteration |-> global_iteration]

(***************************************************************************)
(* calculate_multi_route_with_swaps and optimize_routes, step by step      *)
(***************************************************************************)
\* plan_route is not followed step by step in this specification
PlanRouteIdle ==
    /\ charging_stations = << >>
    /\ destination = Origin
    /\ truck_model = NoModel
    /\ starting_battery_kwh = << >>
    /\ traffic_kmh = AVERAGE_TRUCK_SPEED_KMH
    /\ pc = "idle"
    /\ truck = None
    /\ route_segments = << >>
    /\ detailed_segments = << >>
    /\ charging_stops = << >>
    /\ detailed_charging_stops = << >>
    /\ driver_breaks = << >>
    /\ total_costs = NoCosts
    /\ driver = NewDriver(Origin)
    /\ current_battery = 0
    /\ current_position = Origin
    /\ total_journey_time_minutes = 0
    /\ direct_distance = 0
    /\ direct_duration = 0
    /\ segment_count = 0
    /\ break_count = 0
    /\ result = None

InitCoordinator ==
    /\ \E world \in Worlds :
          /\ route_requests = world.requests
          /\ stations = world.stations
    /\ plan_ok \in [DOMAIN route_requests -> BOOLEAN]
    /\ failures = 0
    /\ base_routes = << >>
    /\ optimizer_routes = << >>
    /\ drivers = << >>
    /\ driver_assignments = << >>
    /\ route_states = << >>
    /\ global_iteration = 0
    /\ route_cursor = 0
    /\ current_iterations = << >>
    /\ truck_swaps = << >>
    /\ opt_pc = "start"
    /\ multi_result = None
    /\ PlanRouteIdle
    /\ FnIdle

\* the MultiRouteWithSegments of the two failure returns
MultiRouteFailure(message) ==
    [success |-> FALSE, message |-> message, routes |-> << >>,
     driver_assignments |-> << >>, truck_swaps |-> << >>]

\* step 1 finds no base route: lines 67-76
MultiRouteNoBaseRoute ==
    /\ opt_pc = "start"
    /\ \A i \in DOMAIN plan_ok : ~plan_ok[i]
    /\ multi_result' = MultiRouteFailure("Failed to calculate any routes")
    /\ opt_pc' = "done"
    /\ UNCHANGED << route_requests, stations, plan_ok, base_routes,
                    optimizer_routes, drivers, driver_assignments,
                    route_states, global_iteration, route_cursor,
                    current_iterations, truck_swaps >>
    /\ UNCHANGED << plan_route_vars, failures, fn_vars >>

\* steps 1 and 2 and lines 65-76 of optimize_routes: the base routes, the
\* optimizer's routes, one driver for each of them and the assignments
MultiRouteStartsOptimizer ==
    /\ opt_pc = "start"
    /\ \E i \in DOMAIN plan_ok : plan_ok[i]
    /\ base_routes' = TrueIndices(plan_ok, 1)
    \* zip(route_requests, base_routes)
    /\ optimizer_routes' = SubSeq(route_requests, 1, Len(base_routes'))
    /\ drivers' = [i \in DOMAIN optimizer_routes' |->
                      [id |-> i,
                       current_location |-> optimizer_routes'[i].start,
                       home_location |-> optimizer_routes'[i].start,
                       current_truck_id |-> i]]
    /\ driver_assignments' =
          [i \in DOMAIN optimizer_routes' |->
              [driver_id |-> i, truck_id |-> i, route_id |-> i]]
    /\ opt_pc' = "base"
    /\ UNCHANGED << route_requests, stations, plan_ok, route_states,
                    global_iteration, route_cursor, current_iterations,
                    truck_swaps, multi_result >>
    /\ UNCHANGED << plan_route_vars, failures, fn_vars >>

\* the state of a route whose base route the provider returned
NewRouteState(route_idx, route, base_route) ==
    [route_idx |-> route_idx,
     start_coord |-> route.start,
     end_coord |-> route.end,
     total_distance_km |-> base_route.distance,
     current_position |-> route.start,
     remaining_distance |-> base_route.distance,
     iterations |-> << >>,
     iteration_count |-> 0,
     completed |-> FALSE]

\* lines 78-116: a state for every route the provider answers for, then
\* the first round begins
OptimizeRoutesInit ==
    /\ opt_pc = "base"
    /\ \E unanswered \in SUBSET (DOMAIN optimizer_routes) :
          /\ failures + Cardinality(unanswered) <= MaxProviderFailures
          /\ failures' = failures + Cardinality(unanswered)
          /\ \E answered \in
                 { TrueIndices([i \in DOMAIN optimizer_routes |->
                                   i \notin unanswered], 1) } :
               route_states' =
                  [k \in DOMAIN answered |->
                      NewRouteState(answered[k],
                          optimizer_routes[answered[k]],
                          GridRoute(optimizer_routes[answered[k]].start,
                                    optimizer_routes[answered[k]].end))]
    /\ global_iteration' = 1
    /\ current_iterations' = << >>
    /\ route_cursor' = 1
    /\ opt_pc' = "hops"
    /\ UNCHANGED << route_requests, stations, plan_ok, base_routes,
                    optimizer_routes, drivers, driver_assignments,
                    truck_swaps, multi_result >>
    /\ UNCHANGED << plan_route_vars, fn_vars >>

\* the loop over route_states is at a route
AtRoute == opt_pc = "hops" /\ route_cursor <= Len(route_states)

\* the station the route at the cursor hops to
NextStation ==
    FindOptimalNextStation(route_states[route_cursor].current_position,
                           route_states[route_cursor].end_coord, stations)

\* mutant: the driver standing at the position takes over the truck
DriversMoved_takeover(driver_list, route_idx, position) ==
    [k \in DOMAIN driver_list |->
        IF driver_list[k].current_truck_id = route_idx
        THEN [driver_list[k] EXCEPT !.current_location = position]
        ELSE IF driver_list[k].current_location = position
        THEN [driver_list[k] EXCEPT !.current_truck_id = route_idx]
        ELSE driver_list[k]]

\* the drivers after the truck of the route moved to the position
DriversMoved(driver_list, route_idx, position) ==
    [k \in DOMAIN driver_list |->
        IF driver_list[k].current_truck_id = route_idx
        THEN [driver_list[k] EXCEPT !.current_location = position]
        ELSE driver_list[k]]

\* lines 120-121: a completed route is skipped
HopSkipsCompleted ==
    /\ AtRoute
    /\ route_states[route_cursor].completed
    /\ route_cursor' = route_cursor + 1
    /\ UNCHANGED << route_requests, stations, plan_ok, base_routes,
                    optimizer_routes, drivers, driver_assignments,
                    route_states, global_iteration, current_iterations,
                    truck_swaps, opt_pc, multi_result >>
    /\ UNCHANGED << plan_route_vars, failures, fn_vars >>

\* mutant: a route without a next station stays active
MarkCompleted_never(route_state) == route_state

\* lines 141-144: the route is marked completed
MarkCompleted(route_state) == [route_state EXCEPT !.completed = TRUE]

\* lines 123-144: no next station is found
HopFindsNoStation ==
    /\ AtRoute
    /\ ~route_states[route_cursor].completed
    /\ NextStation = None
    /\ route_states' =
          [route_states EXCEPT ![route_cursor] =
              MarkCompleted([@ EXCEPT !.iteration_count = @ + 1])]
    /\ route_cursor' = route_cursor + 1
    /\ UNCHANGED << route_requests, stations, plan_ok, base_routes,
                    optimizer_routes, drivers, driver_assignments,
                    global_iteration, current_iterations, truck_swaps,
                    opt_pc, multi_result >>
    /\ UNCHANGED << plan_route_vars, failures, fn_vars >>

\* lines 146-147 with get_distance_between_stations, lines 35-36: the
\* provider returns no route, dist["distance"] raises, the exception
\* leaves optimize_routes and is caught at optily_multiroute.py:201-211
HopRaises ==
    /\ AtRoute
    /\ ~route_states[route_cursor].completed
    /\ NextStation # None
    /\ failures < MaxProviderFailures
    /\ failures' = failures + 1
    /\ route_states' =
          [route_states EXCEPT ![route_cursor].iteration_count = @ + 1]
    /\ multi_result' =
          MultiRouteFailure("Error calculating multi-route with swaps")
    /\ opt_pc' = "done"
    /\ UNCHANGED << route_requests, stations, plan_ok, base_routes,
                    optimizer_routes, drivers, driver_assignments,
                    global_iteration, route_cursor, current_iterations,
                    truck_swaps >>
    /\ UNCHANGED << plan_route_vars, fn_vars >>

\* mutant: the hop is recorded twice in the route's own list
RouteStateAfterHop_twice(route_state, next_station, segment_distance) ==
    [route_state EXCEPT
       !.iteration_count = @ + 1,
       !.remaining_distance = @ - segment_distance,
       !.iterations =
           Append(Append(@, IterationData(route_state.iteration_count + 1,
                         route_state.route_idx, route_state.current_position,
                         next_station, segment_distance)),
                  IterationData(route_state.iteration_count + 1,
                         route_state.route_idx, route_state.current_position,
                         next_station, segment_distance)),
       !.current_position = next_station.pos]

\* lines 146-189: the hop to the next station
RouteStateAfterHop(route_state, next_station, segment_distance) ==
    [route_state EXCEPT
       !.iteration_count = @ + 1,
       !.remaining_distance = @ - segment_distance,
       !.iterations =
           Append(@, IterationData(route_state.iteration_count + 1,
                         route_state.route_idx, route_state.current_position,
                         next_station, segment_distance)),
       !.current_position = next_station.pos]

\* line 192: close enough to the destination
CloseEnough(remaining_distance) ==
    remaining_distance < TARGET_SEGMENT_DISTANCE + DISTANCE_TOLERANCE

\* lines 146-192: the hop leaves the route short of the destination
HopAdvances ==
    /\ AtRoute
    /\ ~route_states[route_cursor].completed
    /\ \E next_station \in { NextStation } \ { None } :
       \E segment_distance \in
              { GridRoute(route_states[route_cursor].current_position,
                          next_station.pos).distance } :
       \E hopped \in { RouteStateAfterHop(route_states[route_cursor],
                           next_station, segment_distance) } :
          /\ ~CloseEnough(hopped.remaining_distance)
          /\ route_states' = [route_states EXCEPT ![route_cursor] = hopped]
          /\ current_iterations' =
                Append(current_iterations,
                       hopped.iterations[Len(hopped.iterations)])
          /\ drivers' = DriversMoved(drivers, hopped.route_idx,
                                     next_station.pos)
    /\ route_cursor' = route_cursor + 1
    /\ UNCHANGED << route_requests, stations, plan_ok, base_routes,
                    optimizer_routes, driver_assignments, global_iteration,
                    truck_swaps, opt_pc, multi_result >>
    /\ UNCHANGED << plan_route_vars, failures, fn_vars >>

\* lines 146-221: the hop and the final segment to the destination
HopCompletes ==
    /\ AtRoute
    /\ ~route_states[route_cursor].completed
    /\ \E next_station \in { NextStation } \ { None } :
       \E segment_distance \in
              { GridRoute(route_states[route_cursor].current_position,
                          next_station.pos).distance } :
       \E hopped \in { RouteStateAfterHop(route_states[route_cursor],
                           next_station, segment_distance) } :
       \E final_segment \in
              { GridRoute(next_station.pos, hopped.end_coord) } :
          /\ CloseEnough(hopped.remaining_distance)
          /\ route_states' =
                [route_states EXCEPT ![route_cursor] =
                    [hopped EXCEPT
                       !.iterations =
                           Append(@, FinalIteration(hopped.iteration_count,
                                         hopped.route_idx, next_station.pos,
                                         hopped.end_coord,
                                         final_segment.distance)),
                       !.remaining_distance = 0,
                       !.completed = TRUE,
                       !.current_position = hopped.end_coord]]
          /\ current_iterations' =
                Append(current_iterations,
                       hopped.iterations[Len(hopped.iterations)])
          /\ drivers' = DriversMoved(drivers, hopped.route_idx,
                                     hopped.end_coord)
    /\ route_cursor' = route_cursor + 1
    /\ UNCHANGED << route_requests, stations, plan_ok, base_routes,
                    optimizer_routes, driver_assignments, global_iteration,
                    truck_swaps, opt_pc, multi_result >>
    /\ UNCHANGED << plan_route_vars, failures, fn_vars >>

\* lines 146-195: the hop, and the provider returns no final segment; the
\* route stays active at the station
HopFinalSegmentFails ==
    /\ AtRoute
    /\ ~route_states[route_cursor].completed
    /\ failures < MaxProviderFailures
    /\ \E next_station \in { NextStation } \ { None } :
       \E segment_distance \in
              { GridRoute(route_states[route_cursor].current_position,
                          next_station.pos).distance } :
       \E hopped \in { RouteStateAfterHop(route_states[route_cursor],
                           next_station, segment_distance) } :
          /\ CloseEnough(hopped.remaining_distance)
          /\ route_states' = [route_states EXCEPT ![route_cursor] = hopped]
          /\ current_iterations' =
                Append(current_iterations,
                       hopped.iterations[Len(hopped.iterations)])
          /\ drivers' = DriversMoved(drivers, hopped.route_idx,
                                     next_station.pos)
    /\ failures' = failures + 1
    /\ route_cursor' = route_cursor + 1
    /\ UNCHANGED << route_requests, stations, plan_ok, base_routes,
                    optimizer_routes, driver_assignments, global_iteration,
                    truck_swaps, opt_pc, multi_result >>
    /\ UNCHANGED << plan_route_vars, fn_vars >>

\* the loop over route_states has ended
RoundHopped == opt_pc = "hops" /\ route_cursor > Len(route_states)

\* lines 224-232: the candidates of the round, best first
PotentialSwaps ==
    IF current_iterations = << >> THEN << >>
    ELSE FindPotentialTruckSwaps(current_iterations, drivers, stations,
                                 RouteEndCoords)

\* lines 277-278 and 113-116: the loop ends or the next round begins
EndOfRound ==
    /\ IF \A k \in DOMAIN route_states : route_states[k].completed
       THEN /\ opt_pc' = "compile"
            /\ UNCHANGED << global_iteration, route_cursor,
                            current_iterations >>
       ELSE /\ opt_pc' = "hops"
            /\ global_iteration' = global_iteration + 1
            /\ route_cursor' = 1
            /\ current_iterations' = << >>

\* lines 223-235: the round has no candidate
RoundWithoutSwap ==
    /\ RoundHopped
    /\ PotentialSwaps = << >>
    /\ EndOfRound
    /\ UNCHANGED << route_requests, stations, plan_ok, base_routes,
                    optimizer_routes, drivers, driver_assignments,
                    route_states, truck_swaps, multi_result >>
    /\ UNCHANGED << plan_route_vars, failures, fn_vars >>

\* mutant: the two drivers also exchange their places
SwapTrucks_and_places(driver_list, driver1_id, driver2_id) ==
    LET k1 == CHOOSE k \in DOMAIN driver_list :
                  driver_list[k].id = driver1_id
        k2 == CHOOSE k \in DOMAIN driver_list :
                  driver_list[k].id = driver2_id
    IN  [k \in DOMAIN driver_list |->
            IF k = k1
            THEN [driver_list[k] EXCEPT
                    !.current_truck_id = driver_list[k2].current_truck_id,
                    !.current_location = driver_list[k2].current_location]
            ELSE IF k = k2
            THEN [driver_list[k] EXCEPT
                    !.current_truck_id = driver_list[k1].current_truck_id,
                    !.current_location = driver_list[k1].current_location]
            ELSE driver_list[k]]

\* mutant: without temp_truck, both drivers end with driver2's truck
SwapTrucks_without_temp(driver_list, driver1_id, driver2_id) ==
    LET k1 == CHOOSE k \in DOMAIN driver_list :
                  driver_list[k].id = driver1_id
        k2 == CHOOSE k \in DOMAIN driver_list :
                  driver_list[k].id = driver2_id
    IN  [k \in DOMAIN driver_list |->
            IF k = k1
            THEN [driver_list[k] EXCEPT
                    !.current_truck_id = driver_list[k2].current_truck_id]
            ELSE driver_list[k]]

\* lines 246-249: the two drivers exchange their trucks
SwapTrucks(driver_list, driver1_id, driver2_id) ==
    LET k1 == CHOOSE k \in DOMAIN driver_list :
                  /\ driver_list[k].id = driver1_id
                  /\ \A m \in 1..(k - 1) : driver_list[m].id # driver1_id
        k2 == CHOOSE k \in DOMAIN driver_list :
                  /\ driver_list[k].id = driver2_id
                  /\ \A m \in 1..(k - 1) : driver_list[m].id # driver2_id
    IN  [k \in DOMAIN driver_list |->
            IF k = k1
            THEN [driver_list[k] EXCEPT
                    !.current_truck_id = driver_list[k2].current_truck_id]
            ELSE IF k = k2
            THEN [driver_list[k] EXCEPT
                    !.current_truck_id = driver_list[k1].current_truck_id]
            ELSE driver_list[k]]

\* lines 235-275: the best candidate is applied and recorded twice
RoundWithSwap ==
    /\ RoundHopped
    /\ \E potential_swaps \in { PotentialSwaps } \ { << >> } :
       \E swap \in { potential_swaps[1] } :
          /\ drivers' = SwapTrucks(drivers, swap.driver1_id, swap.driver2_id)
          /\ truck_swaps' = truck_swaps
                 \o << SwapRecord(swap, swap.iteration1),
                       SwapRecord(swap, swap.iteration2) >>
    /\ EndOfRound
    /\ UNCHANGED << route_requests, stations, plan_ok, base_routes,
                    optimizer_routes, driver_assignments, route_states,
                    multi_result >>
    /\ UNCHANGED << plan_route_vars, failures, fn_vars >>

\* results["routes"] of optimize_routes, lines 280-293
CompiledRoutes ==
    [k \in DOMAIN route_states |->
        [start_coord |-> route_states[k].start_coord,
         end_coord |-> route_states[k].end_coord,
         total_distance |-> route_states[k].total_distance_km,
         iterations |-> route_states[k].iterations]]

\* results["iterations"] of optimize_routes, lines 280-291: the iterations
\* of the routes, route after route
CompiledIterations ==
    Flatten([k \in DOMAIN route_states |-> route_states[k].iterations], 1)

\* the charging costs plan_route may have found for a base plan, in cent;
\* nothing reads them before step 4
BaseChargingCosts == { 0, 9800 }

\* the successful plan of plan_route for the request, as far as steps 4-10
\* read it: the provider's distance driven at AVERAGE_TRUCK_SPEED_KMH, the
\* running totals of _add_segment_costs and _add_charging_costs in cent
\* and their sum in total_cost_eur
BasePlan(request_idx, charging_cost) ==
    LET distance ==
            GridRoute(route_requests[request_idx].start,
                      route_requests[request_idx].end).distance
        costs ==
            [driver_cost |->
                 (((DRIVER_PAY_PER_MINUTE * 60 * 100) \div 6000) * distance)
                     \div AVERAGE_TRUCK_SPEED_KMH,
             depreciation_cost |->
                 (DEPRECIATION_PER_UNIT * Km(distance) * 100) \div 6000,
             tolls_cost |-> (TOLLS_PER_UNIT * Km(distance) * 100) \div 6000,
             charging_cost |-> charging_cost]
    IN  [request |-> request_idx,
         distance_km |-> distance,
         duration_minutes |->
             (distance * 60 * 7) \div AVERAGE_TRUCK_SPEED_KMH,
         total_costs |-> RouteCosts(costs),
         driver_id |-> None]

\* _recalculate_route_costs_from_iterations: cost_ratio is the new total
\* divided by itself, so depreciation and tolls stay as they are
RecalculateRouteCostsFromIterations(route, route_iterations, current_driver_id) ==
    LET Total(field) ==
            SumSeq([k \in DOMAIN route_iterations |->
                       route_iterations[k][field]])
    IN  [route EXCEPT
           !.distance_km = Total("distance"),
           !.duration_minutes = Total("time_elapsed_minutes"),
           !.total_costs =
               [@ EXCEPT
                  !.total_cost_eur = Total("sum_cost"),
                  !.driver_cost_eur = Total("cost_to_company"),
                  !.charging_cost_eur = Total("charging_cost")],
           !.driver_id = current_driver_id]

\* the iterations optimize_routes returns for the route with the index
RouteIterations(route_idx) ==
    LET iterations == CompiledIterations
        mine == TrueIndices([k \in DOMAIN iterations |->
                                iterations[k].route_idx = route_idx], 1)
    IN  [k \in DOMAIN mine |-> iterations[mine[k]]]

\* _apply_swaps_to_routes: route i takes the driver the returned
\* driver_assignments give it and, when the optimizer has iterations for
\* it, the costs recalculated from them
ApplySwapsToRoutes(plans) ==
    [i \in DOMAIN plans |->
        LET assigned == { a \in DOMAIN driver_assignments :
                             driver_assignments[a].route_id = i }
            current_driver_id ==
                IF assigned = {} THEN i
                ELSE driver_assignments[
                         CHOOSE a \in assigned :
                             \A b \in assigned : b <= a].driver_id
        IN  IF RouteIterations(i) # << >>
            THEN RecalculateRouteCostsFromIterations(
                     plans[i], RouteIterations(i), current_driver_id)
            ELSE [plans[i] EXCEPT !.driver_id = current_driver_id]]

\* optimize_routes returns without a swap; steps 4-10 of
\* calculate_multi_route_with_swaps build the response
MultiRouteReturns ==
    /\ opt_pc = "compile"
    /\ truck_swaps = << >>
    /\ \E charging \in [DOMAIN base_routes -> BaseChargingCosts] :
          multi_result' =
             [success |-> TRUE,
              message |-> "Successfully optimized",
              routes |-> ApplySwapsToRoutes(
                             [i \in DOMAIN base_routes |->
                                 BasePlan(base_routes[i], charging[i])]),
              driver_assignments |-> driver_assignments,
              truck_swaps |-> << >>]
    /\ opt_pc' = "done"
    /\ UNCHANGED << route_requests, stations, plan_ok, base_routes,
                    optimizer_routes, drivers, driver_assignments,
                    route_states, global_iteration, route_cursor,
                    current_iterations, truck_swaps >>
    /\ UNCHANGED << plan_route_vars, failures, fn_vars >>

\* optimize_routes returns swaps; step 6 reads swap["route_idx"], a key the
\* records of lines 252-275 do not have: KeyError, caught at lines 201-211
MultiRouteRaisesOnSwap ==
    /\ opt_pc = "compile"
    /\ truck_swaps # << >>
    /\ multi_result' =
          MultiRouteFailure("Error calculating multi-route with swaps")
    /\ opt_pc' = "done"
    /\ UNCHANGED << route_requests, stations, plan_ok, base_routes,
                    optimizer_routes, drivers, driver_assignments,
                    route_states, global_iteration, route_cursor,
                    current_iterations, truck_swaps >>
    /\ UNCHANGED << plan_route_vars, failures, fn_vars >>

NextCoordinator ==
    \/ MultiRouteNoBaseRoute
    \/ MultiRouteStartsOptimizer
    \/ OptimizeRoutesInit
    \/ HopSkipsCompleted
    \/ HopFindsNoStation
    \/ HopRaises
    \/ HopAdvances
    \/ HopCompletes
    \/ HopFinalSegmentFails
    \/ RoundWithoutSwap
    \/ RoundWithSwap
    \/ MultiRouteReturns
    \/ MultiRouteRaisesOnSwap

SpecCoordinator == InitCoordinator /\ [][NextCoordinator]_vars

CoordinatorTypeOK ==
    /\ opt_pc \in {"start", "base", "hops", "compile", "done"}
    /\ failures \in 0..MaxProviderFailures
    /\ global_iteration \in Nat
    /\ \A k \in DOMAIN drivers :
          drivers[k].current_truck_id \in DOMAIN optimizer_routes

(***************************************************************************)
(* Properties of the coordinator                                           *)
(***************************************************************************)
\* dot >= INVERSE_ALIGNMENT_THRESHOLD
AtOrAboveThreshold(dot) ==
    /\ dot.n > 0
    /\ 100 * dot.n * dot.n
         >= INVERSE_ALIGNMENT_THRESHOLD_TENTHS
              * INVERSE_ALIGNMENT_THRESHOLD_TENTHS * dot.d2

\* C11 as stated: every swap record in truck_swaps has an alignment_dot
\* strictly below INVERSE_ALIGNMENT_THRESHOLD (0.8).
C11_SwapDotBelowThreshold ==
    \A i \in DOMAIN truck_swaps :
        ~AtOrAboveThreshold(truck_swaps[i].alignment_dot)

\* C11 amended: every swap record in truck_swaps has an alignment_dot of
\* at most INVERSE_ALIGNMENT_THRESHOLD (0.8); a pair whose dot product is
\* exactly 0.8 is not skipped.
C11_SwapDotAtMostThreshold ==
    \A i \in DOMAIN truck_swaps :
        ~DotGreater(truck_swaps[i].alignment_dot,
                    INVERSE_ALIGNMENT_THRESHOLD_TENTHS)

\* a swap was recorded whose alignment_dot is exactly 0.8
C11_Witness ==
    \E i \in DOMAIN truck_swaps :
        /\ AtOrAboveThreshold(truck_swaps[i].alignment_dot)
        /\ ~DotGreater(truck_swaps[i].alignment_dot,
                       INVERSE_ALIGNMENT_THRESHOLD_TENTHS)

\* the eligible candidates of the round, pair by pair
RoundCandidates ==
    LET Candidate(i, j) ==
            PairCandidate(
                DriverForRoute(drivers, current_iterations[i].route_idx),
                current_iterations[i],
                DriverForRoute(drivers, current_iterations[j].route_idx),
                current_iterations[j], stations, RouteEndCoords)
    IN  { Candidate(p[1], p[2])[1] :
            p \in { q \in (DOMAIN current_iterations)
                             \X (DOMAIN current_iterations) :
                       q[1] < q[2] /\ Candidate(q[1], q[2]) # << >> } }

\* C12: at the end of a round optimize_routes applies no swap when there
\* is no eligible candidate, and otherwise exactly one: a candidate than
\* which no other has a smaller alignment_dot or, at equal alignment_dot,
\* a smaller detour_km_total.
C12_OneBestSwapPerRound ==
    [][RoundHopped =>
         \/ /\ RoundCandidates = {}
            /\ truck_swaps' = truck_swaps
            /\ drivers' = drivers
         \/ \E c \in RoundCandidates :
               /\ \A d \in RoundCandidates : ~SwapKeyLess(d, c)
               /\ truck_swaps' = truck_swaps
                      \o << SwapRecord(c, c.iteration1),
                            SwapRecord(c, c.iteration2) >>
               /\ drivers' = SwapTrucks(drivers, c.driver1_id,
                                        c.driver2_id)]_vars

\* a swap was applied in a round of three hops in which the candidate
\* found first was not the best one
C12_Witness ==
    /\ Len(current_iterations) = 3
    /\ Len(truck_swaps) = 2
    /\ truck_swaps[1].global_iteration = global_iteration
    /\ << truck_swaps[1].driver1_id, truck_swaps[1].driver2_id >>
          # << 1, 2 >>

\* the rounds optimize_routes can need: a hop shortens the remaining
\* distance by at least 250 km, a failed final segment repeats a round
RoundBound ==
    LET total == [i \in DOMAIN route_requests |->
                     GridRoute(route_requests[i].start,
                               route_requests[i].end).distance]
    IN  MaxOver(total, Len(total))
            \div (TARGET_SEGMENT_DISTANCE - DISTANCE_TOLERANCE)
          + MaxProviderFailures + 2

\* the number of steps the coordinator can still take
CoordinatorStepsLeft ==
    LET n == Len(route_requests) + 1
    IN  CASE opt_pc = "start" -> RoundBound * n + 3
          [] opt_pc = "base" -> RoundBound * n + 2
          [] opt_pc = "hops" ->
                 (RoundBound - global_iteration) * n
                     + (n - route_cursor) + 2
          [] opt_pc = "compile" -> 1
          [] opt_pc = "done" -> 0

\* the route has arrived or has no next station
Finished(route_state) ==
    \/ route_state.current_position = route_state.end_coord
    \/ FindOptimalNextStation(route_state.current_position,
                              route_state.end_coord, stations) = None

C14_ProviderFailureFailsOnlyThatRoute ==
    [][(opt_pc = "hops" /\ failures' = failures + 1)
         => opt_pc' = "hops"]_vars

\* the alignment is -1
Opposite(dot) == dot.n < 0 /\ dot.n * dot.n = dot.d2

\* the pairs of hops of the round, by different drivers, that end at the
\* same charging station with opposite onward directions
OppositeAtSameStation ==
    { p \in (DOMAIN current_iterations) \X (DOMAIN current_iterations) :
        /\ p[1] < p[2]
        /\ DriverForRoute(drivers, current_iterations[p[1]].route_idx)
              # None
        /\ DriverForRoute(drivers, current_iterations[p[2]].route_idx)
              # None
        /\ DriverForRoute(drivers, current_iterations[p[1]].route_idx).id
              # DriverForRoute(drivers,
                               current_iterations[p[2]].route_idx).id
        /\ current_iterations[p[1]].charging_station.id
              = current_iterations[p[2]].charging_station.id
        /\ current_iterations[p[1]].charging_station.id # DESTINATION_ID
        /\ Opposite(UnitDot(
               Minus(RouteEndCoords[current_iterations[p[1]].route_idx],
                     current_iterations[p[1]].end_position),
               Minus(RouteEndCoords[current_iterations[p[2]].route_idx],
                     current_iterations[p[2]].end_position))) }

\* C16: for two hops of a round by different drivers that end at the same
\* charging station with opposite onward directions,
\* find_potential_truck_swaps returns a candidate for the two drivers with
\* reason same_station, benefit_km 0 and detour_km_total 0.
C16_SameStationOppositeIsCandidate ==
    RoundHopped =>
        \A p \in OppositeAtSameStation :
            \E k \in DOMAIN PotentialSwaps :
                /\ PotentialSwaps[k].driver1_id =
                      DriverForRoute(drivers,
                          current_iterations[p[1]].route_idx).id
                /\ PotentialSwaps[k].driver2_id =
                      DriverForRoute(drivers,
                          current_iterations[p[2]].route_idx).id
                /\ PotentialSwaps[k].station_id =
                      current_iterations[p[1]].charging_station.id
                /\ PotentialSwaps[k].reason = "same_station"
                /\ PotentialSwaps[k].benefit_km = 0
                /\ PotentialSwaps[k].detour_km_total = 0
                /\ Opposite(PotentialSwaps[k].alignment_dot)

\* the hops of a round are done and two of them crossed at one station
C16_Witness ==
    RoundHopped /\ OppositeAtSameStation # {}

(***************************************************************************)
(* Properties of plan_route, continued                                     *)
(***************************************************************************)
\* C15: a provider call that fails inside the hop loop is tried again:
\* the first failed call of a run does not yet fail the hop and the plan.
C15_FailedCallIsRetried ==
    [][(pc = "loop" /\ failures = 0 /\ failures' = 1)
         => ~(pc' = "done" /\ ~result'.success)]_vars

\* C18: the distance_km of every successful plan is the sum of the
\* distance_km of the route_segments the plan is returned with.
C18_DistanceIsSumOfSegments ==
    Succeeded =>
        result.distance_km =
            SumSeq([i \in DOMAIN result.route_segments |->
                       result.route_segments[i].distance_km])

\* a plan of several segments was returned
C18_Witness ==
    /\ Succeeded
    /\ Len(result.route_segments) >= 3

\* the step records a mandatory short break of 45 minutes that starts
\* before the segment of the step is driven
MandatoryBreakInserted ==
    \E k \in (DOMAIN driver_breaks') \ (DOMAIN driver_breaks) :
        /\ driver_breaks'[k].break_type = "short_break"
        /\ driver_breaks'[k].duration_minutes = SHORT_BREAK_DURATION_MINUTES
        /\ driver_breaks'[k].start_time_minutes = total_journey_time_minutes

\* C19: a hop of the loop inserts a short break of 45 minutes before the
\* segment it commits exactly when continuous_driving_minutes plus the
\* duration of that segment would exceed 270 minutes.
C19_ShortBreakExactlyOverLimit ==
    [][(pc = "loop" /\ Len(route_segments') > Len(route_segments))
         => (MandatoryBreakInserted
               <=> driver.continuous_driving_minutes
                     + route_segments'[Len(route_segments) + 1].duration_minutes
                       > MAX_CONTINUOUS_DRIVING_MINUTES)]_vars

\* C20: a step of the loop that records a break, a mandatory short
\* break, a long rest or the short break at a charging stop, leaves
\* continuous_driving_minutes at what is driven after the break (the last
\* segment of the step, nothing when no segment follows), and mins_driven
\* is reset by a long rest only.
C20_EveryBreakResetsContinuousDriving ==
    [][pc = "loop"
         => /\ Len(driver_breaks') > Len(driver_breaks)
                 => driver'.continuous_driving_minutes =
                      IF Len(route_segments') > Len(route_segments)
                      THEN route_segments'[Len(route_segments')]
                               .duration_minutes
                      ELSE 0
            /\ driver'.mins_driven < driver.mins_driven
                 => \E k \in (DOMAIN driver_breaks')
                                \ (DOMAIN driver_breaks) :
                       driver_breaks'[k].break_type = "long_rest"]_vars

\* C22: the staged loop of plan_route performs at most 10 hops: it never
\* holds more than 10 charging stops, and no plan it returns has more.
C22_AtMostTenHops ==
    /\ Len(charging_stops) <= MAX_SEGMENT_COUNT
    /\ pc = "done" => Len(result.charging_stops) <= MAX_SEGMENT_COUNT

\* the end of a recorded break on the journey clock
BreakEnd(break) == break.start_time_minutes + break.duration_minutes

\* the time on the journey clock at which the last segment committed by
\* the step starts to be driven: the final segment is the last thing the
\* terminal hop adds to the clock, a staged hop adds the segment and then
\* the time at the station
LastDriveStart ==
    LET last == route_segments'[Len(route_segments')]
    IN  IF pc' = "done"
        THEN total_journey_time_minutes' - last.duration_minutes
        ELSE total_journey_time_minutes'
               - CalculateTotalStationTime(
                     charging_stops'[Len(charging_stops')])
               - last.duration_minutes

\* C23: the recorded breaks are ordered in time, each starting no earlier
\* than the end of the break before it, and every break recorded when a
\* hop commits its last segment, the break at the last charging stop
\* included, is over when that segment starts to be driven.
C23_BreaksOrderedAndDisjoint ==
    [][(/\ pc = "loop"
        /\ Len(route_segments') > Len(route_segments)
        /\ pc' = "done" => result'.success)
         => /\ \A k \in 2..Len(driver_breaks') :
                  driver_breaks'[k].start_time_minutes
                      >= BreakEnd(driver_breaks'[k - 1])
            /\ \A k \in DOMAIN driver_breaks' :
                  BreakEnd(driver_breaks'[k]) <= LastDriveStart]_vars

\* the minutes driven on the segments the step commits
MinutesDrivenInStep ==
    SumSeq([i \in 1..(Len(route_segments') - Len(route_segments)) |->
               route_segments'[Len(route_segments) + i].duration_minutes])

\* the minutes of the mandatory breaks and rests the step records before
\* its segment: a short break that starts at the clock of the step, and
\* every long rest
MinutesRestedBeforeSegment ==
    SumSeq([i \in 1..(Len(driver_breaks') - Len(driver_breaks)) |->
               LET break == driver_breaks'[Len(driver_breaks) + i]
               IN  IF \/ break.break_type = "long_rest"
                      \/ break.start_time_minutes
                            = total_journey_time_minutes
                   THEN break.duration_minutes
                   ELSE 0])

\* C24: a hop that makes a charging stop advances the journey clock, and
\* the driver's break minutes, for the stop by the larger of the charging
\* time and 45 minutes, not by their sum.
C24_StationTimeIsMaximum ==
    [][(pc = "loop" /\ Len(charging_stops') = Len(charging_stops) + 1)
         => LET stop == charging_stops'[Len(charging_stops')]
                at_station ==
                    IF stop.charging_time_minutes
                         >= SHORT_BREAK_DURATION_MINUTES
                    THEN stop.charging_time_minutes
                    ELSE SHORT_BREAK_DURATION_MINUTES
            IN  /\ total_journey_time_minutes' =
                      total_journey_time_minutes + MinutesRestedBeforeSegment
                          + MinutesDrivenInStep + at_station
                /\ driver'.breaks_taken_min =
                      driver.breaks_taken_min + MinutesRestedBeforeSegment
                          + at_station]_vars

\* charging stops were made, one of more and one of less than 45 minutes
C24_Witness ==
    /\ pc \in { "loop", "done" }
    /\ \E k \in DOMAIN charging_stops :
          charging_stops[k].charging_time_minutes
              > SHORT_BREAK_DURATION_MINUTES
    /\ \E k \in DOMAIN charging_stops :
          /\ charging_stops[k].charging_time_minutes > 0
          /\ charging_stops[k].charging_time_minutes
                < SHORT_BREAK_DURATION_MINUTES
    /\ total_journey_time_minutes > 0

\* C25: after a charging stop that does not end the route, the charge
\* carried into the next hop is the departure_battery_kwh recorded in the
\* charging stop.
C25_CarriedChargeIsDepartureCharge ==
    [][(/\ pc = "loop"
        /\ pc' = "loop"
        /\ Len(detailed_charging_stops') = Len(detailed_charging_stops) + 1)
         => current_battery' =
              detailed_charging_stops'[Len(detailed_charging_stops')]
                  .departure_battery_kwh]_vars

\* C37: every charging stop plan_route creates has an energy to charge, a
\* charging time and a charging cost that are not negative, also when the
\* truck arrives at the station with more than 80 % of its capacity.
C37_ChargingStopNotNegative ==
    \A k \in DOMAIN charging_stops :
        /\ charging_stops[k].energy_to_charge >= 0
        /\ charging_stops[k].charging_time_minutes >= 0
        /\ charging_stops[k].charging_cost >= 0

\* C38: the final_battery_kwh of a successful plan that ends at the
\* destination is the charge on arrival there: the departure charge of the
\* last charging stop, or the starting charge when the route is direct,
\* less the energy consumed by the last segment.
C38_FinalChargeIsArrivalCharge ==
    (/\ Succeeded
     /\ result.route_segments # << >>
     /\ result.route_segments[Len(result.route_segments)].end_point
           = destination)
        => result.final_battery_kwh =
             (IF result.charging_stops = << >>
              THEN starting_battery_kwh[1]
              ELSE result.charging_stops[Len(result.charging_stops)]
                       .departure_battery_kwh)
               - result.route_segments[Len(result.route_segments)]
                     .energy_consumption_kwh

(***************************************************************************)
(* _calculate_max_range_until_20_percent as a function of its arguments    *)
(***************************************************************************)
\* the trucks the function is applied to
RangeTrucks ==
    [battery_capacity : { KWh(100), KWh(400), KWh(600) },
     consumption : { 10, 12, 15 }]

\* the charges the function is applied to, around 20 % of each capacity
RangeCharges ==
    { 0, KWh(20) - 1, KWh(20), KWh(20) + 1, KWh(80) - 1, KWh(80),
      KWh(80) + 1, KWh(120), KWh(120) + 1, KWh(300), KWh(400), KWh(600) }

\* a truck and two charges, the lower one first
InitMaxRange ==
    /\ fn_pc = "call"
    /\ fn_args \in { a \in RangeTrucks \X RangeCharges \X RangeCharges :
                        a[2] <= a[3] }
    /\ fn_result = << >>
    /\ failures = 0
    /\ PlanRouteIdle
    /\ CoordinatorIdle

\* the function is applied to the truck with each of the two charges
MaxRangeReturns ==
    /\ fn_pc = "call"
    /\ fn_result' =
          << CalculateMaxRangeUntil20Percent(fn_args[1], fn_args[2]),
             CalculateMaxRangeUntil20Percent(fn_args[1], fn_args[3]) >>
    /\ fn_pc' = "done"
    /\ UNCHANGED << plan_route_vars, failures, coordinator_vars, fn_args >>

NextMaxRange == MaxRangeReturns

SpecMaxRange == InitMaxRange /\ [][NextMaxRange]_vars

\* C17: _calculate_max_range_until_20_percent is non-decreasing in the
\* charge, and the range is 0 when the charge is at or below 20 % of the
\* battery capacity.
C17_MaxRangeMonotone ==
    fn_pc = "done" =>
        /\ fn_result[1] <= fn_result[2]
        /\ \A i \in 1..2 :
              fn_args[i + 1] <= Percent20(fn_args[1].battery_capacity)
                  => fn_result[i] = 0

\* the function was applied to a charge of exactly 20 % of the capacity
\* and to a higher charge that gives a longer range
C17_Witness ==
    /\ fn_pc = "done"
    /\ fn_args[2] = Percent20(fn_args[1].battery_capacity)
    /\ fn_result[1] = 0
    /\ fn_result[2] > 0

(***************************************************************************)
(* Properties of the coordinator, continued                                *)
(***************************************************************************)
\* nothing is recorded for the route at the cursor
NothingRecorded ==
    /\ current_iterations' = current_iterations
    /\ route_states'[route_cursor].iterations =
          route_states[route_cursor].iterations
    /\ route_states'[route_cursor].current_position =
          route_states[route_cursor].current_position

\* C26 as stated: in the loop over the routes of a round a route that is
\* not completed performs exactly one hop and records exactly one
\* iteration, and a completed route performs no hop and records nothing
\* (stated for the steps after which the round goes on).
C26_OneHopPerActiveRoute ==
    [][(AtRoute /\ opt_pc' = "hops") =>
         /\ route_cursor' = route_cursor + 1
         /\ IF route_states[route_cursor].completed
            THEN NothingRecorded
            ELSE /\ Len(current_iterations') = Len(current_iterations) + 1
                 /\ Len(route_states'[route_cursor].iterations) =
                       Len(route_states[route_cursor].iterations) + 1]_vars

\* C26 amended: a completed route is skipped and records nothing; a route
\* without a next station performs no hop, records nothing and is marked
\* completed; a route with a next station performs exactly one hop to
\* that station and records exactly one iteration for the round, in
\* current_iterations and in its own list, followed in its own list by
\* one final iteration when it completes; a failed distance request
\* ends the run with nothing recorded.
C26_OneHopPerRouteWithStation ==
    [][AtRoute =>
         LET route_state == route_states[route_cursor]
             route_state1 == route_states'[route_cursor]
         IN  /\ \A k \in DOMAIN route_states \ { route_cursor } :
                   route_states'[k] = route_states[k]
             /\ IF route_state.completed
                THEN /\ NothingRecorded
                     /\ route_cursor' = route_cursor + 1
                ELSE IF NextStation = None
                THEN /\ NothingRecorded
                     /\ route_state1.completed
                     /\ route_cursor' = route_cursor + 1
                ELSE \/ /\ opt_pc' = "done"
                        /\ failures' = failures + 1
                        /\ NothingRecorded
                     \/ /\ route_cursor' = route_cursor + 1
                        /\ Len(current_iterations')
                              = Len(current_iterations) + 1
                        /\ LET hop == current_iterations'[
                                          Len(current_iterations')]
                               own == Len(route_state.iterations)
                           IN  /\ hop.route_idx = route_state.route_idx
                               /\ hop.iteration
                                     = route_state.iteration_count + 1
                               /\ ~hop.is_final
                               /\ hop.start_position
                                     = route_state.current_position
                               /\ hop.end_position = NextStation.pos
                               /\ route_state1.iterations[own + 1] = hop
                               /\ IF route_state1.completed
                                  THEN /\ Len(route_state1.iterations)
                                            = own + 2
                                       /\ route_state1
                                            .iterations[own + 2].is_final
                                  ELSE Len(route_state1.iterations)
                                            = own + 1]_vars

\* in a later round a completed route was skipped and another route
\* recorded its hop
C26_Witness ==
    /\ RoundHopped
    /\ global_iteration >= 2
    /\ Len(current_iterations) = 1
    /\ Len(route_states) = 2
    /\ \E k \in DOMAIN route_states :
          /\ route_states[k].completed
          /\ route_states[k].route_idx # current_iterations[1].route_idx

\* the drivers whose truck is another one after the step
Reassigned ==
    { k \in DOMAIN drivers :
        drivers'[k].current_truck_id # drivers[k].current_truck_id }

\* C27: while the routes of a round perform their hops no driver's
\* current_truck_id changes; it changes only in the swap step, which runs
\* when the loop over the routes of the round has ended.
C27_AssignmentsChangeOnlyInSwapStep ==
    [][opt_pc = "hops" =>
         /\ DOMAIN drivers' = DOMAIN drivers
         /\ AtRoute => Reassigned = {}
         /\ Reassigned # {}
               => /\ RoundHopped
                  /\ Len(truck_swaps') = Len(truck_swaps) + 2]_vars

\* a route is hopping in a round that follows a swap: the drivers no
\* longer sit in the trucks they started in
C27_Witness ==
    /\ opt_pc = "hops"
    /\ route_cursor > 1
    /\ current_iterations # << >>
    /\ truck_swaps # << >>
    /\ truck_swaps[Len(truck_swaps)].global_iteration < global_iteration
    /\ \E k \in DOMAIN drivers :
          drivers[k].current_truck_id # driver_assignments[k].truck_id

\* the truck of the driver with the id, before the step
TruckOf(driver_id) ==
    drivers[CHOOSE k \in DOMAIN drivers : drivers[k].id = driver_id]
        .current_truck_id

\* C28: a step that applies a swap exchanges the current_truck_id of the
\* two drivers named in the swap record and changes nothing else: every
\* route state, every other field of the two drivers, every other driver
\* and the initial driver_assignments are unchanged.
C28_SwapChangesOnlyTwoAssignments ==
    [][(opt_pc = "hops" /\ truck_swaps' # truck_swaps)
         => LET swap == truck_swaps'[Len(truck_swaps')]
            IN  /\ swap.driver1_id # swap.driver2_id
                /\ TruckOf(swap.driver1_id) # TruckOf(swap.driver2_id)
                /\ DOMAIN drivers' = DOMAIN drivers
                /\ \A k \in DOMAIN drivers :
                      drivers'[k] =
                          IF drivers[k].id = swap.driver1_id
                          THEN [drivers[k] EXCEPT !.current_truck_id =
                                   TruckOf(swap.driver2_id)]
                          ELSE IF drivers[k].id = swap.driver2_id
                          THEN [drivers[k] EXCEPT !.current_truck_id =
                                   TruckOf(swap.driver1_id)]
                          ELSE drivers[k]
                /\ route_states' = route_states
                /\ driver_assignments' = driver_assignments]_vars

\* a swap at a rendezvous station was applied: the two drivers stand at
\* different places and have exchanged their trucks
C28_Witness ==
    /\ truck_swaps # << >>
    /\ truck_swaps[Len(truck_swaps)].reason = "rendezvous_within_radius"
    /\ \E k, m \in DOMAIN drivers :
          /\ drivers[k].id = truck_swaps[Len(truck_swaps)].driver1_id
          /\ drivers[m].id = truck_swaps[Len(truck_swaps)].driver2_id
          /\ drivers[k].current_location # drivers[m].current_location
          /\ drivers[k].current_truck_id # driver_assignments[k].truck_id

\* the hop of the round made with the truck of the driver with the id
HopsOfDriver(driver_id) ==
    { i \in DOMAIN current_iterations :
        current_iterations[i].route_idx = TruckOf(driver_id) }

\* C29: a swap with reason same_station is recorded only for two drivers
\* whose hops of the round ended at the same place, a charging station of
\* the station list; two routes that reach different destinations in the
\* round are not swapped as same_station.
C29_SameStationIsOnePlace ==
    [][(/\ opt_pc = "hops"
        /\ truck_swaps' # truck_swaps
        /\ truck_swaps'[Len(truck_swaps')].reason = "same_station")
         => LET swap == truck_swaps'[Len(truck_swaps')]
            IN  \E i \in HopsOfDriver(swap.driver1_id),
                   j \in HopsOfDriver(swap.driver2_id) :
                    /\ current_iterations[i].end_position
                          = current_iterations[j].end_position
                    /\ \E k \in DOMAIN stations :
                          /\ stations[k].id = swap.station_id
                          /\ stations[k].pos
                                = current_iterations[i].end_position]_vars

\* the pairs of hops of the round that find_potential_truck_swaps
\* considers for a swap: different drivers, both route ends known, the
\* onward directions not aligned above the threshold
ConsideredPairs ==
    { p \in (DOMAIN current_iterations) \X (DOMAIN current_iterations) :
        /\ p[1] < p[2]
        /\ ~current_iterations[p[1]].is_final
        /\ ~current_iterations[p[2]].is_final
        /\ DriverForRoute(drivers, current_iterations[p[1]].route_idx)
              # None
        /\ DriverForRoute(drivers, current_iterations[p[2]].route_idx)
              # None
        /\ DriverForRoute(drivers, current_iterations[p[1]].route_idx).id
              # DriverForRoute(drivers,
                               current_iterations[p[2]].route_idx).id
        /\ RouteEndCoords[current_iterations[p[1]].route_idx] # << >>
        /\ RouteEndCoords[current_iterations[p[2]].route_idx] # << >>
        /\ ~TooAligned(UnitDot(
               Minus(RouteEndCoords[current_iterations[p[1]].route_idx],
                     current_iterations[p[1]].end_position),
               Minus(RouteEndCoords[current_iterations[p[2]].route_idx],
                     current_iterations[p[2]].end_position))) }

\* the two hops ended at one charging station of the station list
EndedAtSameStation(p) ==
    /\ current_iterations[p[1]].charging_station.id
          = current_iterations[p[2]].charging_station.id
    /\ current_iterations[p[1]].charging_station.id # DESTINATION_ID

\* d1 + d2 for the station with index k
DetourSum(p, k) ==
    calculate_distance(current_iterations[p[1]].end_position,
                       stations[k].pos)
      + calculate_distance(current_iterations[p[2]].end_position,
                           stations[k].pos)

\* the truck-suitable stations within the radius of both post-hop positions
NearBoth(p) ==
    { k \in DOMAIN stations :
        /\ stations[k].truck_suitability = "yes"
        /\ calculate_distance(current_iterations[p[1]].end_position,
                              stations[k].pos) <= NEAR_RENDEZVOUS_RADIUS_KM
        /\ calculate_distance(current_iterations[p[2]].end_position,
                              stations[k].pos) <= NEAR_RENDEZVOUS_RADIUS_KM }

\* the rendezvous candidates returned for the pair
RendezvousCandidates(p) ==
    { k \in DOMAIN PotentialSwaps :
        /\ PotentialSwaps[k].reason = "rendezvous_within_radius"
        /\ PotentialSwaps[k].iteration1 = current_iterations[p[1]]
        /\ PotentialSwaps[k].iteration2 = current_iterations[p[2]] }

\* C30: for a considered pair of drivers whose hops of the round did not
\* end at the same charging station, find_potential_truck_swaps returns a
\* rendezvous candidate exactly when some truck-suitable station is within
\* 300 km of both post-hop positions; the station of the candidate
\* minimizes d1 + d2 among those stations and detour_km_total is that
\* minimum.
C30_RendezvousIffStationNearBoth ==
    RoundHopped =>
        \A p \in ConsideredPairs :
            ~EndedAtSameStation(p) =>
                /\ (RendezvousCandidates(p) # {}) <=> (NearBoth(p) # {})
                /\ \A c \in RendezvousCandidates(p) :
                      \E k \in NearBoth(p) :
                          /\ PotentialSwaps[c].station_id = stations[k].id
                          /\ PotentialSwaps[c].station_location
                                = stations[k].pos
                          /\ PotentialSwaps[c].detour_km_total
                                = DetourSum(p, k)
                          /\ \A m \in NearBoth(p) :
                                DetourSum(p, k) <= DetourSum(p, m)

\* C31: a step of optimize_routes that applies a swap appends exactly two
\* records to truck_swaps, one for the route of each of the two drivers:
\* both name the same station, the same two drivers and the round
\* (global_iteration) of the step, the first carries the iteration index of
\* the hop of driver1's route and the second that of driver2's route.
C31_SwapRecordedForBothRoutes ==
    [][(opt_pc = "hops" /\ truck_swaps' # truck_swaps)
         => /\ Len(truck_swaps') = Len(truck_swaps) + 2
            /\ SubSeq(truck_swaps', 1, Len(truck_swaps)) = truck_swaps
            /\ LET first == truck_swaps'[Len(truck_swaps) + 1]
                   second == truck_swaps'[Len(truck_swaps) + 2]
               IN  /\ first.station_id = second.station_id
                   /\ first.station_location = second.station_location
                   /\ first.driver1_id = second.driver1_id
                   /\ first.driver2_id = second.driver2_id
                   /\ first.driver1_id # first.driver2_id
                   /\ first.global_iteration = global_iteration
                   /\ second.global_iteration = global_iteration
                   /\ \E i \in HopsOfDriver(first.driver1_id) :
                         first.iteration = current_iterations[i].iteration
                   /\ \E j \in HopsOfDriver(first.driver2_id) :
                         second.iteration = current_iterations[j].iteration
                   /\ HopsOfDriver(first.driver1_id)
                         \cap HopsOfDriver(first.driver2_id) = {}]_vars

\* two records of one swap stand at the end of truck_swaps
C31_Witness ==
    /\ Len(truck_swaps) >= 2
    /\ truck_swaps[Len(truck_swaps) - 1].global_iteration
          = truck_swaps[Len(truck_swaps)].global_iteration
    /\ truck_swaps[Len(truck_swaps)].global_iteration >= 1
    /\ truck_swaps[Len(truck_swaps)].iteration >= 1

\* C32: for every route calculate_multi_route_with_swaps returns,
\* total_cost_eur equals driver_cost_eur + depreciation_cost_eur +
\* tolls_cost_eur + charging_cost_eur, also when the costs of the route
\* were recalculated from the optimizer's iterations.
C32_ReturnedTotalIsSumOfParts ==
    (opt_pc = "done" /\ multi_result.success) =>
        \A i \in DOMAIN multi_result.routes :
            multi_result.routes[i].total_costs.total_cost_eur
               = multi_result.routes[i].total_costs.driver_cost_eur
                   + multi_result.routes[i].total_costs.depreciation_cost_eur
                   + multi_result.routes[i].total_costs.tolls_cost_eur
                   + multi_result.routes[i].total_costs.charging_cost_eur

\* C33: when plan_route succeeded for every request and optimize_routes
\* applied at least one swap, calculate_multi_route_with_swaps returns
\* success = true and its truck_swaps are the swap records of the
\* optimizer.
C33_SwapsAreReturned ==
    (/\ opt_pc = "done"
     /\ \A i \in DOMAIN plan_ok : plan_ok[i]
     /\ truck_swaps # << >>)
        => /\ multi_result.success
           /\ Len(multi_result.truck_swaps) = Len(truck_swaps)
           /\ \A k \in DOMAIN truck_swaps :
                 /\ multi_result.truck_swaps[k].station_id
                       = truck_swaps[k].station_id
                 /\ multi_result.truck_swaps[k].driver1_id
                       = truck_swaps[k].driver1_id
                 /\ multi_result.truck_swaps[k].driver2_id
                       = truck_swaps[k].driver2_id
                 /\ multi_result.truck_swaps[k].global_iteration
                       = truck_swaps[k].global_iteration

\* C34: the routes handed to the optimizer are the requests of the base
\* plans, in order: the i-th optimizer route has the coordinates of the
\* request that produced the i-th base plan, so a request whose
\* plan_route failed is not optimized, and a returned route is the base
\* plan of its own request.
C34_BasePlansStayWithTheirRequests ==
    /\ Len(optimizer_routes) = Len(base_routes)
    /\ \A i \in DOMAIN base_routes :
          optimizer_routes[i] = route_requests[base_routes[i]]
    /\ (opt_pc = "done" /\ multi_result.success) =>
          \A i \in DOMAIN multi_result.routes :
             /\ multi_result.routes[i].request = base_routes[i]
             /\ \A k \in DOMAIN route_states :
                   route_states[k].route_idx = i =>
                      /\ route_states[k].start_coord
                            = route_requests[base_routes[i]].start
                      /\ route_states[k].end_coord
                            = route_requests[base_routes[i]].end

\* C35: the driver_assignments optimize_routes returns agree with the
\* drivers' current_truck_id at the end of the run: every driver is listed
\* with the truck and route it holds then, so after a swap between two
\* drivers each is listed with the other's former truck.
C35_ReturnedAssignmentsAreFinal ==
    opt_pc \in {"compile", "done"} =>
        \A a \in DOMAIN driver_assignments :
            \A k \in DOMAIN drivers :
                drivers[k].id = driver_assignments[a].driver_id =>
                    /\ driver_assignments[a].truck_id
                          = drivers[k].current_truck_id
                    /\ driver_assignments[a].route_id
                          = drivers[k].current_truck_id

\* the drivers that hold the truck of the route
DriversOfRoute(route_idx) ==
    { k \in DOMAIN drivers : drivers[k].current_truck_id = route_idx }

\* C36: in every state of optimize_routes, after any number of rounds and
\* swaps, no two drivers hold the same truck and every route, each of which
\* started with one driver, has exactly one driver.
C36_AssignmentStaysInjective ==
    opt_pc \in {"base", "hops", "compile", "done"} =>
        /\ \A k, m \in DOMAIN drivers :
              k # m => drivers[k].current_truck_id
                          # drivers[m].current_truck_id
        /\ \A route_idx \in DOMAIN optimizer_routes :
              Cardinality(DriversOfRoute(route_idx)) = 1

\* optimize_routes has ended after a swap and a route is held by a driver
\* other than the one it started with
C36_Witness ==
    /\ opt_pc = "compile"
    /\ truck_swaps # << >>
    /\ \E route_idx \in DOMAIN optimizer_routes :
          \E k \in DriversOfRoute(route_idx) : drivers[k].id # route_idx

(***************************************************************************)
(* backend/compliance.py: calculate_required_breaks as a function of its   *)
(* arguments; times in minutes                                             *)
(***************************************************************************)
\* 4.5 * 3600 seconds
MAX_CONTINUOUS_DRIVING_TIME == 270
\* 45 * 60 seconds
SHORT_BREAK_DURATION == 45
\* 9 * 3600 seconds
MAX_DAILY_DRIVING_TIME == 540
\* 11 * 3600 seconds
LONG_REST_DURATION == 660

\* DriverBreak(break_type, location, start_time, duration)
DriverBreak(type, location, start, duration) ==
    [break_type |-> type, location |-> location, start_time |-> start,
     duration |-> duration]

\* the body of the loop for segment i, from the loop state st
RequiredBreaksStep(st, route_points, segment_durations, i) ==
    LET duration == segment_durations[i]
        accumulated1 == st.accumulated_driving + duration
        today1 == st.total_driving_today + duration
        time1 == st.current_time + duration
        \* route_points[min(i + 1, len(route_points) - 1)], counting from 0
        break_location == route_points[Min2(i + 1, Len(route_points))]
        short == accumulated1 >= MAX_CONTINUOUS_DRIVING_TIME
        breaks2 == IF short
                   THEN Append(st.breaks,
                            DriverBreak("short_break", break_location, time1,
                                        SHORT_BREAK_DURATION))
                   ELSE st.breaks
        accumulated2 == IF short THEN 0 ELSE accumulated1
        time2 == IF short THEN time1 + SHORT_BREAK_DURATION ELSE time1
        long == today1 >= MAX_DAILY_DRIVING_TIME
    IN  IF long
        THEN [breaks |-> Append(breaks2,
                            DriverBreak("long_rest", break_location, time2,
                                        LONG_REST_DURATION)),
              accumulated_driving |-> 0,
              total_driving_today |-> 0,
              current_time |-> time2 + LONG_REST_DURATION]
        ELSE [breaks |-> breaks2,
              accumulated_driving |-> accumulated2,
              total_driving_today |-> today1,
              current_time |-> time2]

RECURSIVE RequiredBreaksLoop(_, _, _)
\* the loop state after the first n segments
RequiredBreaksLoop(route_points, segment_durations, n) ==
    IF n = 0
    THEN [breaks |-> << >>, accumulated_driving |-> 0,
          total_driving_today |-> 0, current_time |-> 0]
    ELSE RequiredBreaksStep(
             RequiredBreaksLoop(route_points, segment_durations, n - 1),
             route_points, segment_durations, n)

\* calculate_required_breaks: no break for a route within the limit,
\* else the breaks the loop over the segments collects
calculate_required_breaks(route_duration, route_points, segment_durations) ==
    IF route_duration <= MAX_CONTINUOUS_DRIVING_TIME THEN << >>
    ELSE RequiredBreaksLoop(route_points, segment_durations,
                            Len(segment_durations)).breaks

\* the segment durations the function is applied to
BreakDurations == { 30, 60, 150, 240, 270, 300, 540 }
\* the longest list of segments the function is applied to
MaxBreakSegments == 3

\* a route of one to MaxBreakSegments segments, its points numbered along
\* the route, and its total duration
InitRequiredBreaks ==
    /\ fn_pc = "call"
    /\ \E n \in 1..MaxBreakSegments :
       \E segment_durations \in [1..n -> BreakDurations] :
          fn_args = << SumSeq(segment_durations), [k \in 1..(n + 1) |-> k],
                       segment_durations >>
    /\ fn_result = << >>
    /\ failures = 0
    /\ PlanRouteIdle
    /\ CoordinatorIdle

\* the function is applied to the route
RequiredBreaksReturns ==
    /\ fn_pc = "call"
    /\ fn_result' = calculate_required_breaks(fn_args[1], fn_args[2],
                                              fn_args[3])
    /\ fn_pc' = "done"
    /\ UNCHANGED << plan_route_vars, failures, coordinator_vars, fn_args >>

\* the breaks with b put behind the breaks that start no later
InsertBreak(sorted_breaks, b) ==
    LET n == Cardinality({ k \in DOMAIN sorted_breaks :
                              sorted_breaks[k].start_time <= b.start_time })
    IN  SubSeq(sorted_breaks, 1, n) \o << b >>
          \o SubSeq(sorted_breaks, n + 1, Len(sorted_breaks))

RECURSIVE SortBreaks(_, _)
\* sorted(breaks, key=lambda b: b.start_time) of the first n breaks
SortBreaks(breaks, n) ==
    IF n = 0 THEN << >>
    ELSE InsertBreak(SortBreaks(breaks, n - 1), breaks[n])

\* the body of the loop of is_route_compliant for one break; ok is FALSE
\* from the first return False on
ComplianceStep(st, break_obj) ==
    LET driving_time == break_obj.start_time - st.current_time
        continuous_driving == st.continuous_driving + driving_time
        daily_driving == st.daily_driving + driving_time
    IN  [ok |-> /\ st.ok
                /\ continuous_driving <= MAX_CONTINUOUS_DRIVING_TIME
                /\ daily_driving <= MAX_DAILY_DRIVING_TIME,
         continuous_driving |-> 0,
         daily_driving |-> IF break_obj.break_type = "long_rest"
                           THEN 0 ELSE daily_driving,
         current_time |-> break_obj.start_time + break_obj.duration]

RECURSIVE ComplianceLoop(_, _)
\* the loop state after the first n breaks
ComplianceLoop(sorted_breaks, n) ==
    IF n = 0
    THEN [ok |-> TRUE, continuous_driving |-> 0, daily_driving |-> 0,
          current_time |-> 0]
    ELSE ComplianceStep(ComplianceLoop(sorted_breaks, n - 1),
                        sorted_breaks[n])

\* is_route_compliant
is_route_compliant(route_duration, breaks) ==
    IF route_duration <= MAX_CONTINUOUS_DRIVING_TIME THEN TRUE
    ELSE LET st == ComplianceLoop(SortBreaks(breaks, Len(breaks)),
                                  Len(breaks))
             final_driving == route_duration - st.current_time
         IN  /\ st.ok
             /\ st.continuous_driving + final_driving
                   <= MAX_CONTINUOUS_DRIVING_TIME
             /\ st.daily_driving + final_driving <= MAX_DAILY_DRIVING_TIME

\* the breaks returned are checked for the same route duration
IsRouteCompliantReturns ==
    /\ fn_pc = "done"
    /\ fn_result' = [breaks |-> fn_result,
                     compliant |-> is_route_compliant(fn_args[1], fn_result)]
    /\ fn_pc' = "checked"
    /\ UNCHANGED << plan_route_vars, failures, coordinator_vars, fn_args >>

NextRequiredBreaks ==
    \/ RequiredBreaksReturns
    \/ IsRouteCompliantReturns

SpecRequiredBreaks == InitRequiredBreaks /\ [][NextRequiredBreaks]_vars

\* C21: for a drive of 5 hours without a stop, calculate_required_breaks
\* returns exactly one break, a short break of 45 minutes, and the break
\* starts after at most 270 minutes of driving.
C21_OneShortBreakBeforeLimit ==
    (fn_pc = "done" /\ fn_args[1] = 300)
        => /\ Len(fn_result) = 1
           /\ fn_result[1].break_type = "short_break"
           /\ fn_result[1].duration = SHORT_BREAK_DURATION
           /\ fn_result[1].start_time <= MAX_CONTINUOUS_DRIVING_TIME

\* C39: the breaks calculate_required_breaks returns for a list of segment
\* durations are accepted by is_route_compliant for the total duration of
\* the segments.
C39_RequiredBreaksAreCompliant ==
    fn_pc = "checked" => fn_result.compliant
====
